---- MODULE Spec2Model ----
(***************************************************************************)
(* A model of the TensTorrent backend of Spatter: the host side            *)
(* (TensTorrentBackend.cc: buffer manager, work split, launch) and the     *)
(* core-resident kernels (src/Spatter/kernels).                            *)
(*                                                                         *)
(* Scaling.  A tile holds 32*32 two-byte elements in the source.  The      *)
(* model keeps the arithmetic of the source and scales the tile to         *)
(* elements_per_tile elements, so that ranges that straddle tiles, tile    *)
(* padding and tile caching happen on small inputs.  Buffers are linear    *)
(* arrays of tiles; element values are small naturals.                     *)
(***************************************************************************)
EXTENDS Naturals, Integers, Sequences, FiniteSets, TLC

(* ------------------------------ bounds -------------------------------- *)

\* elements of two bytes in one tile (32 * 32 in the source, scaled)
elements_per_tile == 4

\* effective grid dimensions explored by the work-split specification
MaxGridX == 3

MaxGridY == 2

\* num_elements explored by the work-split specification
MaxElements == 7

\* values per write explored by the buffer-manager specification (more than
\* one tile)
MaxWriteLen == 5

\* num_elements explored by the gather-launch specification (more than one
\* tile)
MaxGatherElements == 5

\* num_elements explored by the scatter-launch specification (more than the
\* four-byte entries of one tile)
MaxScatterElements == 3

\* elements explored by the multi-gather / multi-scatter specification
MaxMultiElements == 3

\* width in bits of the unsigned words of the model (32 in the source, scaled
\* so that wrap-around of index arithmetic happens on small inputs)
WordBits == 4

\* tiles per buffer explored by the bandwidth-kernel specification
MaxNocTiles == 2

\* largest core budget explored (more than the cores of the largest grid but
\* one, so that the budget is capped)
MaxRequested == 8

\* width in bits of size_t in the model (64 in the source, scaled; wider than
\* every buffer size the launches use)
SizeBits == 6

(* ---------------------------- arithmetic ------------------------------ *)

\* uint32_t arithmetic wraps modulo 2^width
U32(v) == v % (2 ^ WordBits)

\* UINT32_MAX, the "nothing cached" marker of the kernels: a value no tile id
\* of the model takes
UINT32_MAX == 0 - 1

\* size_t arithmetic wraps modulo 2^width
SizeT(v) == v % (2 ^ SizeBits)

Min(a, b) == IF a < b THEN a ELSE b

\* ((n + t - 1) / t) * t and (n + t - 1) / t : the round-up idiom of the source
CeilDiv(n, t) == (n + t - 1) \div t

RoundUp(n, t) == CeilDiv(n, t) * t

(* ------------------------------ state --------------------------------- *)

VARIABLES
  \* host side of one launch (executeGatherKernel / executeScatterKernel)
  op,                    \* "gather" or "scatter": which entry point runs
  compute_grid_size_,    \* [x, y]: the grid of the device
  num_cores_,            \* the core budget given to the constructor
  effective_grid_size_,  \* [x, y]
  num_elements,
  delta,
  src_buffer,            \* the three buffer handles passed to the entry point
  dst_buffer,
  pattern_buffer,
  host_pc,               \* position of the host in the entry point
  split,                 \* the tuple returned by split_work_to_cores
  grp,                   \* index of the work group being iterated (1, 2)
  core_i,                \* cores of that group already bound
  work_offset,
  cores_configured,
  bound,                 \* SetRuntimeArgs calls of this call, in order
  program_args,          \* program -> core -> the runtime arguments the program holds for the core
  \* buffer manager and device memory
  initialized_,
  device_,               \* the IDevice* CreateDevice returned, or nullptr
  command_queue_,        \* the CommandQueue* of that device, or nullptr
  dram,                  \* buffer handle -> the two-byte cells of the buffer
  buffer_sizes_,         \* the side-table: handle -> logical element count
  last_call,             \* the most recent buffer-manager call, its input and output
  \* the device
  cores                  \* core -> the state of the kernel(s) running on it

\* the arguments of the entry point and the grid it splits over
deviceVars == <<compute_grid_size_, num_cores_>>

callVars == <<deviceVars, op, effective_grid_size_, num_elements, delta, src_buffer,
              dst_buffer, pattern_buffer>>

hostVars == <<callVars, host_pc, split, grp, core_i, work_offset,
              cores_configured, bound, program_args>>

\* what initialize() and cleanup() assign
lifeVars == <<initialized_, device_, command_queue_>>

bufVars == <<lifeVars, dram, buffer_sizes_, last_call>>

kernVars == <<cores>>

nonHostVars == <<bufVars, kernVars>>

vars == <<hostVars, bufVars, kernVars>>

(* ------------------------- Work Partitioner --------------------------- *)

NumCores(g) == g.x * g.y

\* CoreCoord{}: the effective grid of a device object before discover_cores
NoGrid == [x |-> 0, y |-> 0]

discover_cores_mutAllCores(grid, requested) == grid

\* discover_cores(): the effective grid for the grid of the device and the
\* requested core budget num_cores_
discover_cores(grid, requested) ==
  IF requested <= 0
  THEN grid
  ELSE LET total_device_cores == U32(grid.x * grid.y)
           effective_cores == Min(U32(requested), total_device_cores)
           effective_x == Min(U32(grid.x), effective_cores)
           effective_y == U32(effective_cores + effective_x - 1) \div effective_x
       IN [x |-> effective_x, y |-> Min(effective_y, U32(grid.y))]

\* split_work_to_cores(grid, units): base = units / C, remainder = units % C;
\* group 1 = the first `remainder` cores with base + 1 units each, group 2 =
\* the remaining C - remainder cores with base units each.  Cores are
\* numbered 1..C in the fixed enumeration order of the grid.
split_work_to_cores(g, units) ==
  LET C == NumCores(g)
      base == units \div C
      remainder == units % C
  IN [num_cores      |-> Min(C, units),
      core_group_1   |-> [k \in 1..remainder |-> k],
      core_group_2   |-> [k \in 1..(C - remainder) |-> remainder + k],
      work_per_core1 |-> base + 1,
      work_per_core2 |-> base]

NoSplit == [num_cores |-> 0, core_group_1 |-> <<>>, core_group_2 |-> <<>>,
            work_per_core1 |-> 0, work_per_core2 |-> 0]

\* auto work_groups = {make_pair(core_group_1, work_per_core1),
\*                     make_pair(core_group_2, work_per_core2)}
GroupCores(s, g) == IF g = 1 THEN s.core_group_1 ELSE s.core_group_2

GroupWork_mutSame(s, g) == s.work_per_core1

GroupWork(s, g) == IF g = 1 THEN s.work_per_core1 ELSE s.work_per_core2

(* --------------------- Execution Coordinator -------------------------- *)

\* a null std::shared_ptr<Buffer>
NoHandle == "nullptr"

\* table[key] = value on a std::map (the entry is created when it is absent)
Record(table, key, value) ==
  [h \in (DOMAIN table) \cup {key} |-> IF h = key THEN value ELSE table[h]]

\* the program an entry point binds and enqueues: gather_program_ or
\* scatter_program_; as CreateProgram leaves them, they hold no arguments
NoProgramArgs == [program \in {"gather", "scatter"} |-> <<>>]

\* if (!initialized_) (executeGatherKernel)
\* if (!initialized_ || !src_buffer || !dst_buffer || !pattern_buffer) (executeScatterKernel)
EntryCheckFails ==
  \/ ~initialized_
  \/ op = "scatter" /\ NoHandle \in {src_buffer, dst_buffer, pattern_buffer}

\* the early `return false` of the two entry points
ReturnFalse ==
  /\ host_pc = "entry"
  /\ EntryCheckFails
  /\ host_pc' = "returned_false"
  /\ UNCHANGED <<callVars, split, grp, core_i, work_offset, cores_configured,
                 bound, program_args>>
  /\ UNCHANGED nonHostVars

\* entry of executeGatherKernel / executeScatterKernel up to the call of
\* split_work_to_cores and the initialisation of the loop variables
SplitWork ==
  /\ host_pc = "entry"
  /\ ~EntryCheckFails
  /\ split' = split_work_to_cores(effective_grid_size_, num_elements)
  /\ work_offset' = 0
  /\ cores_configured' = 0
  /\ grp' = 1
  /\ core_i' = 0
  /\ bound' = <<>>
  /\ host_pc' = "groups"
  /\ UNCHANGED <<callVars, program_args>>
  /\ UNCHANGED nonHostVars

\* if (work_per_core == 0) continue;
SkipGroup ==
  /\ host_pc = "groups"
  /\ grp <= 2
  /\ GroupWork(split, grp) = 0
  /\ grp' = grp + 1
  /\ core_i' = 0
  /\ UNCHANGED <<callVars, host_pc, split,
                 work_offset, cores_configured, bound, program_args>>
  /\ UNCHANGED nonHostVars

\* uint32_t num_tiles = (work_per_core + (32*32-1)) / (32*32);
NumTiles(work_per_core) == CeilDiv(work_per_core, elements_per_tile)

\* the argument vectors bound for one core (buffer addresses are left out:
\* every core receives the same three buffers)
RuntimeArgs(core, offset, work_per_core) ==
  [core |-> core, work_offset |-> offset, work_per_core |-> work_per_core,
   delta |-> delta,
   num_tiles |-> IF op = "gather" THEN NumTiles(work_per_core) ELSE 0]

\* SetRuntimeArgs(program, kernel, core, args) for the kernel(s) of one core:
\* the program keeps the arguments of the core until they are set again
SetRuntimeArgs(core, offset, work_per_core) ==
  /\ bound' = Append(bound, RuntimeArgs(core, offset, work_per_core))
  /\ program_args' =
       [program_args EXCEPT ![op] = Record(@, core, RuntimeArgs(core, offset, work_per_core))]

\* a core of the group being iterated is left to bind
CoreToBind ==
  /\ host_pc = "groups"
  /\ grp <= 2
  /\ core_i < Len(GroupCores(split, grp))

\* src_buffer->address() and the like on a null handle: the read through the
\* null pointer ends the process
NullDereference ==
  /\ host_pc' = "crashed"
  /\ UNCHANGED <<bound, program_args, work_offset, core_i>>

BindCore_mutNoAccumulate ==
  /\ CoreToBind
  /\ GroupWork(split, grp) # 0
  /\ cores_configured' = cores_configured + 1
  /\ IF NoHandle \in {src_buffer, dst_buffer, pattern_buffer}
     THEN NullDereference
     ELSE /\ SetRuntimeArgs(GroupCores(split, grp)[core_i + 1], work_offset,
                            GroupWork(split, grp))
          /\ work_offset' = U32(work_offset + split.work_per_core2)
          /\ core_i' = core_i + 1
          /\ UNCHANGED host_pc
  /\ UNCHANGED <<callVars, split, grp>>
  /\ UNCHANGED nonHostVars

BindCore_mutBindZero ==
  /\ CoreToBind
  /\ cores_configured' = cores_configured + 1
  /\ IF NoHandle \in {src_buffer, dst_buffer, pattern_buffer}
     THEN NullDereference
     ELSE /\ SetRuntimeArgs(GroupCores(split, grp)[core_i + 1], work_offset,
                            GroupWork(split, grp))
          /\ work_offset' = U32(work_offset + GroupWork(split, grp))
          /\ core_i' = core_i + 1
          /\ UNCHANGED host_pc
  /\ UNCHANGED <<callVars, split, grp>>
  /\ UNCHANGED nonHostVars

\* one iteration of the inner loop: cores_configured++, the argument vectors
\* (which read the addresses of the three buffers), SetRuntimeArgs for the
\* core, work_offset += work_per_core
BindCore ==
  /\ CoreToBind
  /\ GroupWork(split, grp) # 0
  /\ cores_configured' = cores_configured + 1
  /\ IF NoHandle \in {src_buffer, dst_buffer, pattern_buffer}
     THEN NullDereference
     ELSE /\ SetRuntimeArgs(GroupCores(split, grp)[core_i + 1], work_offset,
                            GroupWork(split, grp))
          /\ work_offset' = U32(work_offset + GroupWork(split, grp))
          /\ core_i' = core_i + 1
          /\ UNCHANGED host_pc
  /\ UNCHANGED <<callVars, split, grp>>
  /\ UNCHANGED nonHostVars

\* the inner loops of a group with work are exhausted: next work group
NextGroup ==
  /\ host_pc = "groups"
  /\ grp <= 2
  /\ GroupWork(split, grp) # 0
  /\ core_i = Len(GroupCores(split, grp))
  /\ grp' = grp + 1
  /\ core_i' = 0
  /\ UNCHANGED <<callVars, host_pc, split,
                 work_offset, cores_configured, bound, program_args>>
  /\ UNCHANGED nonHostVars

(* ------------------------- Format Converter --------------------------- *)

\* bfloat16(float): the upper 16 bits of the float are kept, which leaves 8
\* significant bits; on the non-negative integers of the model, the value is
\* truncated to its 8 leading binary digits
RECURSIVE bfloat16(_)
bfloat16(v) == IF v < 256 THEN v ELSE 2 * bfloat16(v \div 2)

\* a two-byte cell of device memory: a bfloat16 element, one half of a
\* four-byte word, or indeterminate content
Bf16Cell(v) == [t |-> "bf16", v |-> v]

LoCell(w) == [t |-> "lo", v |-> w]

HiCell(w) == [t |-> "hi", v |-> w]

JunkCell == [t |-> "junk", v |-> 0]

\* static_cast<double>(tt_data[i].to_float()): exact on a bfloat16 element;
\* any other cell is read as the bits it holds
to_float(cell) ==
  [t |-> IF cell.t = "bf16" THEN "double" ELSE cell.t, v |-> cell.v]

(* ----------------------- Bulk Buffer Manager -------------------------- *)

SIZEOF_BFLOAT16 == 2

SIZEOF_UINT32 == 4

\* TILE_WIDTH * TILE_HEIGHT * sizeof(bfloat16)
TILE_SIZE_BYTES == elements_per_tile * SIZEOF_BFLOAT16

\* 64 in the source, a divisor of the tile size (1/32 of it); scaled with the
\* tile so that it stays one
DRAM_ALIGNMENT == TILE_SIZE_BYTES \div elements_per_tile

align_to_tile_size(size) ==
  (SizeT(size + TILE_SIZE_BYTES - 1) \div TILE_SIZE_BYTES) * TILE_SIZE_BYTES

\* the size allocate_buffer requests for a DRAM buffer
AllocatedBytes(size_bytes) ==
  (SizeT(align_to_tile_size(size_bytes) + DRAM_ALIGNMENT - 1) \div DRAM_ALIGNMENT) * DRAM_ALIGNMENT

Zeros(n, z) == [i \in 1..n |-> z]

\* the vector write_buffer hands to EnqueueWriteBuffer: the converted values,
\* then zeros up to the tile boundary
PaddedBf16_mutNoPad(data) == [i \in 1..Len(data) |-> bfloat16(data[i])]

PaddedBf16(data) ==
  LET aligned_size == CeilDiv(Len(data), elements_per_tile) * elements_per_tile
  IN [i \in 1..Len(data) |-> bfloat16(data[i])] \o Zeros(aligned_size - Len(data), 0)

\* the vector writeBuffer(uint32_t) hands to EnqueueWriteBuffer
PaddedU32(data) ==
  LET aligned_size == CeilDiv(Len(data), elements_per_tile) * elements_per_tile
  IN data \o Zeros(aligned_size - Len(data), 0)

Bf16Cells(tt_data) == [i \in 1..Len(tt_data) |-> Bf16Cell(tt_data[i])]

\* a vector of four-byte words as two-byte cells, low half first
U32Cells(words) ==
  [i \in 1..(2 * Len(words)) |->
     IF i % 2 = 1 THEN LoCell(words[(i + 1) \div 2]) ELSE HiCell(words[i \div 2])]

\* EnqueueWriteBuffer(cq, buffer, vector): the transfer covers the whole
\* buffer and takes its bytes from the start of the vector; the part of the
\* buffer the vector does not reach receives indeterminate content, and a
\* vector longer than the buffer is cut
DeviceStore(old, cells) ==
  [i \in 1..Len(old) |-> IF i <= Len(cells) THEN cells[i] ELSE JunkCell]

Handles == DOMAIN dram

\* the handles CreateBuffer returns, in the order it returns them
BufferIds == <<"h1", "h2">>

\* the device calls a buffer-manager call issues when it goes through
DeviceCalls(name) ==
  IF name = "allocate_buffer" THEN <<"CreateBuffer">>
  ELSE IF name \in {"write_buffer", "writeBuffer"} THEN <<"EnqueueWriteBuffer">>
  ELSE IF name = "read_buffer" THEN <<"EnqueueReadBuffer">>
  ELSE <<>>

NoCall == [op |-> "none", buffer |-> NoHandle, input |-> <<>>, transfer |-> <<>>,
           result |-> <<>>, prior_count |-> 0 - 1, prev_op |-> "none", prev_buffer |-> NoHandle, prev_input |-> <<>>,
           outcome |-> "none", device |-> <<>>]

\* a call as last_call keeps it; a read also keeps the call it follows
Called(name, buffer, input, transfer, result) ==
  [op |-> name, buffer |-> buffer, input |-> input, transfer |-> transfer,
   result |-> result,
   prior_count |-> IF buffer \in DOMAIN buffer_sizes_ THEN buffer_sizes_[buffer] ELSE 0 - 1,
   prev_op |-> IF name = "read_buffer" THEN last_call.op ELSE "none",
   prev_buffer |-> IF name = "read_buffer" THEN last_call.buffer ELSE NoHandle,
   prev_input |-> IF name = "read_buffer" THEN last_call.input ELSE <<>>,
   outcome |-> "ok", device |-> DeviceCalls(name)]

\* a call that did not go through: what it ended with and the device calls
\* it had issued by then
Failed(name, buffer, input, outcome, device) ==
  [Called(name, buffer, input, <<>>, <<>>) EXCEPT !.outcome = outcome, !.device = device]

NotInitialized_mutReturns(name, buffer, input) ==
  /\ last_call' = Failed(name, buffer, input, "called", <<>>)
  /\ UNCHANGED <<lifeVars, dram, buffer_sizes_>>

\* throw std::runtime_error("TensTorrent device not initialized")
NotInitialized(name, buffer, input) ==
  /\ last_call' = Failed(name, buffer, input, "not_initialized", <<>>)
  /\ UNCHANGED <<lifeVars, dram, buffer_sizes_>>

\* a device call on a null handle (EnqueueWriteBuffer, EnqueueReadBuffer): the
\* library reads through the null pointer; the process ends, or the library
\* raises an error that leaves the call
NullHandleOutcomes == {"crash", "device_error"}

\* allocate_buffer(size_bytes, DRAM): a fresh buffer of the aligned size,
\* its content indeterminate; CreateBuffer reads through device_
allocate_buffer(size_bytes) ==
  IF ~initialized_
  THEN NotInitialized("allocate_buffer", NoHandle, <<size_bytes>>)
  ELSE /\ Cardinality(Handles) < Len(BufferIds)
       /\ IF device_ = "nullptr"
          THEN /\ dram' = dram
               /\ \E outcome \in NullHandleOutcomes :
                    last_call' = Failed("allocate_buffer", NoHandle, <<size_bytes>>, outcome,
                                        <<"CreateBuffer">>)
          ELSE LET h == BufferIds[Cardinality(Handles) + 1]
               IN /\ dram' = Record(dram, h, Zeros(AllocatedBytes(size_bytes) \div SIZEOF_BFLOAT16,
                                                   JunkCell))
                  /\ last_call' = Called("allocate_buffer", h, <<size_bytes>>,
                                         <<AllocatedBytes(size_bytes)>>, <<>>)
       /\ UNCHANGED <<lifeVars, buffer_sizes_>>

write_buffer_mutRecordAligned(buffer, data) ==
  IF ~initialized_
  THEN NotInitialized("write_buffer", buffer, data)
  ELSE /\ buffer_sizes_' = Record(buffer_sizes_, buffer, Len(PaddedBf16(data)))
       /\ IF buffer = NoHandle
          THEN /\ dram' = dram
               /\ \E outcome \in NullHandleOutcomes :
                    last_call' = Failed("write_buffer", buffer, data, outcome, <<"EnqueueWriteBuffer">>)
          ELSE /\ dram' = [dram EXCEPT ![buffer] = DeviceStore(@, Bf16Cells(PaddedBf16(data)))]
               /\ last_call' = Called("write_buffer", buffer, data, PaddedBf16(data), <<>>)
       /\ UNCHANGED lifeVars

\* write_buffer(buffer, data): record the size, convert and pad, transfer
write_buffer(buffer, data) ==
  IF ~initialized_
  THEN NotInitialized("write_buffer", buffer, data)
  ELSE /\ buffer_sizes_' = Record(buffer_sizes_, buffer, Len(data))
       /\ IF buffer = NoHandle
          THEN /\ dram' = dram
               /\ \E outcome \in NullHandleOutcomes :
                    last_call' = Failed("write_buffer", buffer, data, outcome, <<"EnqueueWriteBuffer">>)
          ELSE /\ dram' = [dram EXCEPT ![buffer] = DeviceStore(@, Bf16Cells(PaddedBf16(data)))]
               /\ last_call' = Called("write_buffer", buffer, data, PaddedBf16(data), <<>>)
       /\ UNCHANGED lifeVars

\* writeBuffer(buffer, const std::vector<uint32_t>& data)
writeBuffer(buffer, data) ==
  IF ~initialized_
  THEN NotInitialized("writeBuffer", buffer, data)
  ELSE /\ buffer_sizes_' = Record(buffer_sizes_, buffer, Len(data))
       /\ IF buffer = NoHandle
          THEN /\ dram' = dram
               /\ \E outcome \in NullHandleOutcomes :
                    last_call' = Failed("writeBuffer", buffer, data, outcome, <<"EnqueueWriteBuffer">>)
          ELSE /\ dram' = [dram EXCEPT ![buffer] = DeviceStore(@, U32Cells(PaddedU32(data)))]
               /\ last_call' = Called("writeBuffer", buffer, data, PaddedU32(data), <<>>)
       /\ UNCHANGED lifeVars

\* the values read_buffer returns from the vector EnqueueReadBuffer filled
ReadResult_mutIgnoreTable(table, buffer, tt_data) ==
  [i \in 1..Len(tt_data) |-> to_float(tt_data[i])]

ReadResult(table, buffer, tt_data) ==
  LET original_size == IF buffer \in DOMAIN table THEN table[buffer] ELSE Len(tt_data)
  IN [i \in 1..Min(original_size, Len(tt_data)) |-> to_float(tt_data[i])]

read_buffer_mutInserts(buffer) ==
  IF ~initialized_
  THEN NotInitialized("read_buffer", buffer, <<>>)
  ELSE /\ IF buffer = NoHandle
          THEN \E outcome \in NullHandleOutcomes :
                 last_call' = Failed("read_buffer", buffer, <<>>, outcome, <<"EnqueueReadBuffer">>)
          ELSE last_call' = Called("read_buffer", buffer, <<>>, <<>>,
                                   ReadResult(buffer_sizes_, buffer, dram[buffer]))
       /\ buffer_sizes_' = IF buffer \in DOMAIN buffer_sizes_ THEN buffer_sizes_
                           ELSE Record(buffer_sizes_, buffer, 0)
       /\ UNCHANGED <<lifeVars, dram>>

\* read_buffer(buffer, data): EnqueueReadBuffer returns the whole buffer
read_buffer(buffer) ==
  IF ~initialized_
  THEN NotInitialized("read_buffer", buffer, <<>>)
  ELSE /\ IF buffer = NoHandle
          THEN \E outcome \in NullHandleOutcomes :
                 last_call' = Failed("read_buffer", buffer, <<>>, outcome, <<"EnqueueReadBuffer">>)
          ELSE last_call' = Called("read_buffer", buffer, <<>>, <<>>,
                                   ReadResult(buffer_sizes_, buffer, dram[buffer]))
       /\ UNCHANGED <<lifeVars, dram, buffer_sizes_>>

execute_scatter_kernel_mutFallBack(src, dst, pattern, n) ==
  /\ last_call' = Failed("execute_scatter_kernel", NoHandle, <<src, dst, pattern, n>>,
                         IF initialized_ THEN "ok" ELSE "not_initialized", <<>>)
  /\ UNCHANGED <<lifeVars, dram, buffer_sizes_>>

\* execute_scatter_kernel(src_buffer, dst_buffer, pattern_buffer, num_elements):
\* throws "not initialized" or "Scatter kernel not yet implemented"
execute_scatter_kernel(src, dst, pattern, n) ==
  /\ last_call' = Failed("execute_scatter_kernel", NoHandle, <<src, dst, pattern, n>>,
                         IF initialized_ THEN "not_implemented" ELSE "not_initialized", <<>>)
  /\ UNCHANGED <<lifeVars, dram, buffer_sizes_>>

(* ------------------ device memory as kernels see it ------------------- *)

\* the values of an unsigned word
Words == 0..((2 ^ WordBits) - 1)

\* the content of scratch memory nothing was loaded into
JunkTile == [k \in 1..elements_per_tile |-> JunkCell]

\* one page (TILE_SIZE_BYTES bytes, elements_per_tile two-byte cells) of a
\* bulk buffer; a page past the end of the buffer is indeterminate
TileCells(cells, tile_id) ==
  [k \in 1..elements_per_tile |->
     IF tile_id * elements_per_tile + k <= Len(cells)
     THEN cells[tile_id * elements_per_tile + k] ELSE JunkCell]

\* noc_async_read / noc_async_read_tile followed by its barrier: the page the
\* scratch slot receives
noc_async_read_tile(buffer, tile_id) == TileCells(dram[buffer], tile_id)

\* noc_async_write / noc_async_write_tile followed by its barrier: bulk memory
\* after the page is written (a page past the end of the buffer lands outside
\* the buffer and leaves it as it is)
noc_async_write_tile(buffer, tile_id, l1) ==
  [dram EXCEPT ![buffer] =
     [k \in 1..Len(dram[buffer]) |->
        IF k > tile_id * elements_per_tile /\ k <= (tile_id + 1) * elements_per_tile
        THEN l1[k - tile_id * elements_per_tile] ELSE dram[buffer][k]]]

\* a bulk transfer as a core issues it
Transfer(kind, buffer, tile_id) == [kind |-> kind, buffer |-> buffer, tile |-> tile_id]

\* what a kernel does on a scratch slot, in program order: an asynchronous
\* "read" into it or "write" from it, the "read_barrier" / "write_barrier"
\* that follows, a "load" of an element from it or a "store" of an element
\* into it.  tile is the tile id transferred or the tile id of the element's
\* index, marker the cache marker of the slot at that point; dirty and from
\* describe the destination slot of the core s at that point (an element was
\* stored and not written back; the tile id its content was read from)
SlotEvent(kind, slot, tile_id, marker, s) ==
  [e |-> kind, slot |-> slot, tile |-> tile_id, marker |-> marker,
   dirty |-> s.dirty, from |-> s.dst_from]

\* a kernel that keeps no destination tile between elements
NoDestination == [dirty |-> FALSE, dst_from |-> UINT32_MAX]

ReadEvents_mutNoBarrier(slot, tile_id, marker, s) ==
  <<SlotEvent("read", slot, tile_id, marker, s)>>

\* noc_async_read_tile(...); noc_async_read_barrier();
ReadEvents(slot, tile_id, marker, s) ==
  <<SlotEvent("read", slot, tile_id, marker, s),
    SlotEvent("read_barrier", slot, tile_id, marker, s)>>

\* noc_async_write_tile(...); noc_async_write_barrier();
WriteEvents(slot, tile_id, marker, s) ==
  <<SlotEvent("write", slot, tile_id, marker, s),
    SlotEvent("write_barrier", slot, tile_id, marker, s)>>

\* reinterpret_cast<uint32_t*>(l1)[k]: the word held by the two-byte cells
\* 2k and 2k+1 of scratch memory; when they are not the two halves of a word
\* that was stored there (element data, or memory past what was loaded), the
\* word read is whatever those bits are
WordValues(l1, k) ==
  IF /\ 2 * k + 2 <= Len(l1)
     /\ l1[2 * k + 1].t = "lo"
     /\ l1[2 * k + 2].t = "hi"
  THEN {l1[2 * k + 1].v}
  ELSE Words

(* ------------------- scatter kernel (scatter_kernel.cpp) --------------- *)

\* the kernel at entry, on the arguments of one SetRuntimeArgs call; the
\* scratch layout is pattern tile, source tile, destination tile
ScatterCore(b) ==
  [pc |-> "tile", work_offset |-> b.work_offset, work_per_core |-> b.work_per_core,
   delta |-> b.delta,
   tile_idx |-> b.work_offset \div elements_per_tile,
   elem_idx |-> 0, dst_index |-> 0,
   pattern_l1 |-> JunkTile, src_l1 |-> JunkTile, dst_l1 |-> JunkTile,
   xfer |-> <<>>,
   events |-> <<>>, writes |-> 0, touched |-> {}, dirty |-> FALSE, dst_from |-> UINT32_MAX]

start_element(s) == s.work_offset

end_element(s) == U32(s.work_offset + s.work_per_core)

\* uint32_t end_tile = (end_element + elements_per_tile - 1) / elements_per_tile
end_tile(s) == CeilDiv(end_element(s), elements_per_tile)

work_start_in_tile(s) ==
  IF start_element(s) > s.tile_idx * elements_per_tile
  THEN start_element(s) - s.tile_idx * elements_per_tile ELSE 0

work_end_in_tile(s) ==
  IF end_element(s) < (s.tile_idx + 1) * elements_per_tile
  THEN end_element(s) - s.tile_idx * elements_per_tile ELSE elements_per_tile

\* head of the tile loop: leave the loop, skip a tile without work, or read
\* the pattern tile and the source tile of this chunk
ScatterTile(c) ==
  /\ host_pc = "enqueued"
  /\ op = "scatter"
  /\ cores[c].pc = "tile"
  /\ LET s == cores[c]
     IN cores' = [cores EXCEPT ![c] =
          IF s.tile_idx >= end_tile(s)
          THEN [s EXCEPT !.pc = "done", !.xfer = <<>>, !.events = <<>>]
          ELSE IF work_start_in_tile(s) >= work_end_in_tile(s)
          THEN [s EXCEPT !.tile_idx = s.tile_idx + 1, !.xfer = <<>>, !.events = <<>>]
          ELSE [s EXCEPT !.pc = "elem",
                         !.elem_idx = work_start_in_tile(s),
                         !.pattern_l1 = noc_async_read_tile("pattern", s.tile_idx),
                         !.src_l1 = noc_async_read_tile("dense", s.tile_idx),
                         !.xfer = <<Transfer("read", "pattern", s.tile_idx),
                                    Transfer("read", "dense", s.tile_idx)>>,
                         !.events = ReadEvents("pattern", s.tile_idx, UINT32_MAX, s)
                                    \o ReadEvents("dense", s.tile_idx, UINT32_MAX, s)]]
  /\ UNCHANGED <<hostVars, bufVars>>

\* uint32_t dst_index = pattern_index + delta * (global_elem_idx / elements_per_tile)
ScatterDstIndex(pattern_index, d, global_elem_idx) ==
  U32(pattern_index + d * (global_elem_idx \div elements_per_tile))

\* one element, first half: pattern_data[elem_idx], the destination index,
\* and the read of the destination tile
ScatterReadDst(c) ==
  /\ host_pc = "enqueued"
  /\ op = "scatter"
  /\ cores[c].pc = "elem"
  /\ LET s == cores[c]
     IN \E pattern_index \in WordValues(s.pattern_l1 \o s.src_l1, s.elem_idx) :
          LET global_elem_idx == s.tile_idx * elements_per_tile + s.elem_idx
              dst_index == ScatterDstIndex(pattern_index, s.delta, global_elem_idx)
              dst_tile_idx == dst_index \div elements_per_tile
          IN cores' = [cores EXCEPT ![c] =
               [s EXCEPT !.pc = "write",
                         !.dst_index = dst_index,
                         !.dst_l1 = noc_async_read_tile("sparse", dst_tile_idx),
                         !.xfer = <<Transfer("read", "sparse", dst_tile_idx)>>,
                         !.events = <<SlotEvent("load", "pattern", s.tile_idx, UINT32_MAX, s)>>
                                    \o ReadEvents("sparse", dst_tile_idx, UINT32_MAX, s),
                         !.dst_from = dst_tile_idx]]
  /\ UNCHANGED <<hostVars, bufVars>>

\* one element, second half: dst_data[dst_elem_offset] = src_data[elem_idx]
\* and the write-back of the whole destination tile
ScatterWriteDst(c) ==
  /\ host_pc = "enqueued"
  /\ op = "scatter"
  /\ cores[c].pc = "write"
  /\ LET s == cores[c]
         dst_tile_idx == s.dst_index \div elements_per_tile
         dst_elem_offset == s.dst_index % elements_per_tile
         dst_data == [s.dst_l1 EXCEPT ![dst_elem_offset + 1] = s.src_l1[s.elem_idx + 1]]
         last == s.elem_idx + 1 >= work_end_in_tile(s)
     IN /\ dram' = noc_async_write_tile("sparse", dst_tile_idx, dst_data)
        /\ cores' = [cores EXCEPT ![c] =
             [s EXCEPT !.pc = IF last THEN "tile" ELSE "elem",
                       !.elem_idx = s.elem_idx + 1,
                       !.tile_idx = IF last THEN s.tile_idx + 1 ELSE s.tile_idx,
                       !.dst_l1 = dst_data,
                       !.xfer = <<Transfer("write", "sparse", dst_tile_idx)>>,
                       !.events = <<SlotEvent("load", "dense", s.tile_idx, UINT32_MAX, s),
                                    SlotEvent("store", "sparse", dst_tile_idx, UINT32_MAX, s)>>
                                  \o WriteEvents("sparse", dst_tile_idx, UINT32_MAX,
                                                 [s EXCEPT !.dirty = TRUE]),
                       !.writes = @ + 1,
                       !.touched = @ \cup {dst_tile_idx}]]
  /\ UNCHANGED <<hostVars, lifeVars, buffer_sizes_, last_call>>

(* --------- gather pipeline (reader_gather, gather_compute, writer_gather) --------- *)

\* constexpr uint32_t num_tiles_per_cb = 2: tiles a circular buffer holds
num_tiles_per_cb == 2

\* the three kernels of one core at entry, with the core's circular buffers
\* c_0 (sparse), c_1 (pattern) and c_16 (output)
GatherCore(b) ==
  [pc |-> "pattern", work_offset |-> b.work_offset, work_per_core |-> b.work_per_core,
   delta |-> b.delta,
   tile_idx |-> b.work_offset \div elements_per_tile,
   num_tiles |-> b.num_tiles,
   tile |-> 0,
   tile_id |-> b.work_offset \div elements_per_tile,
   end_tile_id |-> (b.work_offset \div elements_per_tile) + b.num_tiles,
   cb_sparse |-> <<>>, cb_pattern |-> <<>>, cb_out |-> <<>>,
   xfer |-> <<>>, events |-> <<>>]

\* reader, head of the tile loop: leave the loop, skip a tile without work,
\* or cb_reserve_back(cb_id_pattern), read pattern tile tile_idx, cb_push_back
ReaderPattern(c) ==
  /\ host_pc = "enqueued"
  /\ op = "gather"
  /\ cores[c].pc = "pattern"
  /\ LET s == cores[c]
     IN IF s.tile_idx >= end_tile(s)
        THEN cores' = [cores EXCEPT ![c] =
               [s EXCEPT !.pc = "done", !.xfer = <<>>, !.events = <<>>]]
        ELSE IF work_start_in_tile(s) >= work_end_in_tile(s)
        THEN cores' = [cores EXCEPT ![c] =
               [s EXCEPT !.tile_idx = s.tile_idx + 1, !.xfer = <<>>, !.events = <<>>]]
        ELSE /\ Len(s.cb_pattern) < num_tiles_per_cb
             /\ cores' = [cores EXCEPT ![c] =
                  [s EXCEPT !.pc = "sparse",
                            !.cb_pattern = Append(s.cb_pattern, noc_async_read_tile("pattern", s.tile_idx)),
                            !.xfer = <<Transfer("read", "pattern", s.tile_idx)>>,
                            !.events = ReadEvents("cb_pattern", s.tile_idx, UINT32_MAX,
                                                  NoDestination)
                                       \o <<SlotEvent("cb_push_back", "cb_pattern", s.tile_idx,
                                                      UINT32_MAX, NoDestination)>>]]
  /\ UNCHANGED <<hostVars, bufVars>>

\* reader: cb_reserve_back(cb_id_sparse), read sparse tile tile_idx,
\* cb_push_back, next tile
ReaderSparse(c) ==
  /\ host_pc = "enqueued"
  /\ op = "gather"
  /\ cores[c].pc = "sparse"
  /\ LET s == cores[c]
     IN /\ Len(s.cb_sparse) < num_tiles_per_cb
        /\ cores' = [cores EXCEPT ![c] =
             [s EXCEPT !.pc = "pattern",
                       !.tile_idx = s.tile_idx + 1,
                       !.cb_sparse = Append(s.cb_sparse, noc_async_read_tile("sparse", s.tile_idx)),
                       !.xfer = <<Transfer("read", "sparse", s.tile_idx)>>,
                       !.events = ReadEvents("cb_sparse", s.tile_idx, UINT32_MAX, NoDestination)
                                  \o <<SlotEvent("cb_push_back", "cb_sparse", s.tile_idx,
                                                 UINT32_MAX, NoDestination)>>]]
  /\ UNCHANGED <<hostVars, bufVars>>

\* copy_tile(cb_sparse, 0, 0); pack_tile(0, cb_out): the output tile is the
\* sparse tile at the front of c_0
copy_tile(sparse_tile, pattern_tile) == sparse_tile

GatherCompute_mutNoPop(c) ==
  /\ host_pc = "enqueued"
  /\ op = "gather"
  /\ LET s == cores[c]
     IN /\ s.tile < s.num_tiles
        /\ s.cb_sparse # <<>>
        /\ s.cb_pattern # <<>>
        /\ Len(s.cb_out) < num_tiles_per_cb
        /\ cores' = [cores EXCEPT ![c] =
             [s EXCEPT !.tile = s.tile + 1,
                       !.cb_out = Append(s.cb_out, copy_tile(Head(s.cb_sparse), Head(s.cb_pattern))),
                       !.xfer = <<>>,
                       !.events = <<>>]]
  /\ UNCHANGED <<hostVars, bufVars>>

\* compute, one iteration: wait for a sparse and a pattern tile, copy, wait
\* for room in the output buffer, push the output tile, pop both inputs
GatherCompute(c) ==
  /\ host_pc = "enqueued"
  /\ op = "gather"
  /\ LET s == cores[c]
     IN /\ s.tile < s.num_tiles
        /\ s.cb_sparse # <<>>
        /\ s.cb_pattern # <<>>
        /\ Len(s.cb_out) < num_tiles_per_cb
        /\ cores' = [cores EXCEPT ![c] =
             [s EXCEPT !.tile = s.tile + 1,
                       !.cb_out = Append(s.cb_out, copy_tile(Head(s.cb_sparse), Head(s.cb_pattern))),
                       !.cb_sparse = Tail(s.cb_sparse),
                       !.cb_pattern = Tail(s.cb_pattern),
                       !.xfer = <<>>,
                       !.events = <<SlotEvent("load", "cb_sparse", s.tile, UINT32_MAX,
                                              NoDestination),
                                    SlotEvent("store", "cb_out", s.tile, UINT32_MAX,
                                              NoDestination)>>]]
  /\ UNCHANGED <<hostVars, bufVars>>

\* writer, one iteration: wait for an output tile, write it to tile tile_id
\* of the destination buffer, pop it
GatherWriter(c) ==
  /\ host_pc = "enqueued"
  /\ op = "gather"
  /\ LET s == cores[c]
     IN /\ s.tile_id < s.end_tile_id
        /\ s.cb_out # <<>>
        /\ dram' = noc_async_write_tile("dense", s.tile_id, Head(s.cb_out))
        /\ cores' = [cores EXCEPT ![c] =
             [s EXCEPT !.tile_id = s.tile_id + 1,
                       !.cb_out = Tail(s.cb_out),
                       !.xfer = <<Transfer("write", "dense", s.tile_id)>>,
                       !.events = WriteEvents("cb_out", s.tile_id, UINT32_MAX, NoDestination)
                                  \o <<SlotEvent("cb_pop_front", "cb_out", s.tile_id,
                                                 UINT32_MAX, NoDestination)>>]]
  /\ UNCHANGED <<hostVars, lifeVars, buffer_sizes_, last_call>>

\* the reader, compute and writer kernels of the core have all returned
GatherDone(s) ==
  /\ s.pc = "done"
  /\ s.tile = s.num_tiles
  /\ s.tile_id = s.end_tile_id

(* ------ multi-gather / multi-scatter kernels (multi_*_kernel.cpp) ------ *)

\* no element resolved yet
NoElement == 0 - 1

\* the kernel at entry on its runtime arguments a; the four scratch slots
\* hold nothing and the four cache markers are UINT32_MAX.  The
\* first-indirection buffer is pattern_gather in the gather kernel and
\* pattern_scatter in the scatter kernel.
MultiCore(a) ==
  [pc |-> "entry",
   start_element |-> a.start_element, end_element |-> a.end_element,
   pattern_length |-> a.pattern_length, delta |-> a.delta, count |-> a.count,
   wrap |-> a.wrap, sparse_size_elements |-> a.sparse_size_elements,
   elem_idx |-> a.start_element,
   cached_pattern_gather_tile |-> UINT32_MAX, cached_pattern_tile |-> UINT32_MAX,
   cached_sparse_tile |-> UINT32_MAX, cached_dense_tile |-> UINT32_MAX,
   pattern_gather_l1 |-> JunkTile, pattern_l1 |-> JunkTile,
   sparse_l1 |-> JunkTile, dense_l1 |-> JunkTile,
   resolved |-> NoElement,
   sparse_idx |-> 0, dense_idx |-> 0, value |-> JunkCell,
   xfer |-> <<>>,
   events |-> <<>>, writes |-> 0, touched |-> {}, dirty |-> FALSE, dst_from |-> UINT32_MAX]

\* the buffer the kernel reads element values from and the one it writes
SourceOf(kind) == IF kind = "multi_gather" THEN "sparse" ELSE "dense"

DestOf(kind) == IF kind = "multi_gather" THEN "dense" ELSE "sparse"

\* the cache marker, the scratch slot and the resolved index of a data buffer
SlotTile(s, buffer) ==
  IF buffer = "sparse" THEN s.cached_sparse_tile ELSE s.cached_dense_tile

SlotL1(s, buffer) == IF buffer = "sparse" THEN s.sparse_l1 ELSE s.dense_l1

SlotIdx(s, buffer) == IF buffer = "sparse" THEN s.sparse_idx ELSE s.dense_idx

SetSlot(s, buffer, tile_id, l1) ==
  IF buffer = "sparse"
  THEN [s EXCEPT !.cached_sparse_tile = tile_id, !.sparse_l1 = l1]
  ELSE [s EXCEPT !.cached_dense_tile = tile_id, !.dense_l1 = l1]

\* if (tile_id != cached) { noc_async_read_tile(...); cached = tile_id; }
CachedLoad(buffer, tile_id, cached, l1) ==
  IF tile_id # cached THEN noc_async_read_tile(buffer, tile_id) ELSE l1

LoadTransfer_mutAlways(buffer, tile_id, cached) == <<Transfer("read", buffer, tile_id)>>

LoadTransfer(buffer, tile_id, cached) ==
  IF tile_id # cached THEN <<Transfer("read", buffer, tile_id)>> ELSE <<>>

\* the events of a look-up through a cached tile: the load when one is
\* issued, then the element read
CachedEvents(buffer, tile_id, cached, s) ==
  (IF LoadTransfer(buffer, tile_id, cached) # <<>>
   THEN ReadEvents(buffer, tile_id, cached, s) ELSE <<>>)
  \o <<SlotEvent("load", buffer, tile_id,
                 IF LoadTransfer(buffer, tile_id, cached) # <<>> THEN tile_id ELSE cached, s)>>

\* multi_scatter only: first_indirection_idx = first_indirection_idx % pattern_length
FirstIndirection(kind, word, pattern_length) ==
  IF kind = "multi_scatter" THEN word % pattern_length ELSE word

SparseIndex_mutNoWrap(sparse_base_idx, d, i, sparse_size_elements) ==
  U32(sparse_base_idx + d * i)

\* uint32_t sparse_idx = (sparse_base_idx + delta * i) % sparse_size_elements
SparseIndex(sparse_base_idx, d, i, sparse_size_elements) ==
  U32(sparse_base_idx + d * i) % sparse_size_elements

\* uint32_t dense_idx = j + pattern_length * (i % wrap)
DenseIndex(j, pattern_length, i, wrap) == U32(j + pattern_length * (i % wrap))

\* if (start_element >= end_element) return;
MultiEntry(c) ==
  /\ host_pc = "enqueued"
  /\ op \in {"multi_gather", "multi_scatter"}
  /\ cores[c].pc = "entry"
  /\ LET s == cores[c]
     IN cores' = [cores EXCEPT ![c] =
          [s EXCEPT !.pc = IF s.start_element >= s.end_element THEN "done" ELSE "elem"]]
  /\ UNCHANGED <<hostVars, bufVars>>

\* one iteration of the element loop up to the destination tile: j and i, the
\* two pattern look-ups through their cached tiles, the sparse and the dense
\* index, the value read from the source; the value is stored at once when
\* its destination tile is the cached one.  Past the last element the loop is
\* left.
MultiElem(c) ==
  /\ host_pc = "enqueued"
  /\ op \in {"multi_gather", "multi_scatter"}
  /\ cores[c].pc = "elem"
  /\ LET s == cores[c]
         j == s.elem_idx % s.count
         i == s.elem_idx \div s.count
         pattern_idx == j % s.pattern_length
         pattern_gather_tile_id == pattern_idx \div elements_per_tile
         pattern_gather_data ==
           CachedLoad("pattern_gather", pattern_gather_tile_id,
                      s.cached_pattern_gather_tile, s.pattern_gather_l1)
     IN IF s.elem_idx >= s.end_element
        THEN cores' = [cores EXCEPT ![c] =
               [s EXCEPT !.pc = "flush", !.xfer = <<>>, !.events = <<>>]]
        ELSE \E word \in WordValues(pattern_gather_data, pattern_idx % elements_per_tile) :
          LET first_indirection_idx == FirstIndirection(op, word, s.pattern_length)
              pattern_tile_id == first_indirection_idx \div elements_per_tile
              pattern_data ==
                CachedLoad("pattern", pattern_tile_id, s.cached_pattern_tile, s.pattern_l1)
          IN \E sparse_idx \in
                  {SparseIndex(sparse_base_idx, s.delta, i, s.sparse_size_elements) :
                     sparse_base_idx \in
                       WordValues(pattern_data, first_indirection_idx % elements_per_tile)} :
            LET dense_idx == DenseIndex(j, s.pattern_length, i, s.wrap)
                src == SourceOf(op)
                dst == DestOf(op)
                src_idx == IF src = "sparse" THEN sparse_idx ELSE dense_idx
                dst_idx == IF dst = "sparse" THEN sparse_idx ELSE dense_idx
                src_tile_id == src_idx \div elements_per_tile
                src_data == CachedLoad(src, src_tile_id, SlotTile(s, src), SlotL1(s, src))
                value == src_data[(src_idx % elements_per_tile) + 1]
                dst_tile_id == dst_idx \div elements_per_tile
                pattern_loads ==
                  LoadTransfer("pattern_gather", pattern_gather_tile_id,
                               s.cached_pattern_gather_tile)
                  \o LoadTransfer("pattern", pattern_tile_id, s.cached_pattern_tile)
                src_load == LoadTransfer(src, src_tile_id, SlotTile(s, src))
                pattern_events ==
                  CachedEvents("pattern_gather", pattern_gather_tile_id,
                               s.cached_pattern_gather_tile, s)
                  \o CachedEvents("pattern", pattern_tile_id, s.cached_pattern_tile, s)
                src_events == CachedEvents(src, src_tile_id, SlotTile(s, src), s)
                r == [SetSlot(s, src, src_tile_id, src_data) EXCEPT
                        !.cached_pattern_gather_tile = pattern_gather_tile_id,
                        !.pattern_gather_l1 = pattern_gather_data,
                        !.cached_pattern_tile = pattern_tile_id,
                        !.pattern_l1 = pattern_data,
                        !.resolved = s.elem_idx,
                        !.sparse_idx = sparse_idx,
                        !.dense_idx = dense_idx,
                        !.value = value,
                        !.xfer = IF op = "multi_gather" THEN pattern_loads \o src_load
                                 ELSE src_load \o pattern_loads,
                        !.events = IF op = "multi_gather" THEN pattern_events \o src_events
                                   ELSE src_events \o pattern_events]
            IN cores' = [cores EXCEPT ![c] =
                 IF dst_tile_id = SlotTile(s, dst)
                 THEN [SetSlot(r, dst, dst_tile_id,
                               [SlotL1(r, dst) EXCEPT ![(dst_idx % elements_per_tile) + 1] = value])
                         EXCEPT !.elem_idx = s.elem_idx + 1,
                                !.events = @ \o <<SlotEvent("store", dst, dst_tile_id,
                                                           SlotTile(s, dst), s)>>,
                                !.touched = @ \cup {dst_tile_id},
                                !.dirty = TRUE]
                 ELSE [r EXCEPT !.pc = IF SlotTile(s, dst) # UINT32_MAX
                                       THEN "writeback" ELSE "load"]]
  /\ UNCHANGED <<hostVars, bufVars>>

\* the destination tile changes and a tile is cached: write the cached tile
\* back before the new one is loaded
MultiWriteBack(c) ==
  /\ host_pc = "enqueued"
  /\ op \in {"multi_gather", "multi_scatter"}
  /\ cores[c].pc = "writeback"
  /\ LET s == cores[c]
         dst == DestOf(op)
     IN /\ dram' = noc_async_write_tile(dst, SlotTile(s, dst), SlotL1(s, dst))
        /\ cores' = [cores EXCEPT ![c] =
             [s EXCEPT !.pc = "load",
                       !.xfer = <<Transfer("write", dst, SlotTile(s, dst))>>,
                       !.events = WriteEvents(dst, SlotTile(s, dst), SlotTile(s, dst), s),
                       !.writes = @ + 1,
                       !.dirty = FALSE]]
  /\ UNCHANGED <<hostVars, lifeVars, buffer_sizes_, last_call>>

\* load the destination tile of the element, mark it cached, store the value
MultiLoad(c) ==
  /\ host_pc = "enqueued"
  /\ op \in {"multi_gather", "multi_scatter"}
  /\ cores[c].pc = "load"
  /\ LET s == cores[c]
         dst == DestOf(op)
         dst_idx == SlotIdx(s, dst)
         dst_tile_id == dst_idx \div elements_per_tile
         dst_data == [noc_async_read_tile(dst, dst_tile_id)
                        EXCEPT ![(dst_idx % elements_per_tile) + 1] = s.value]
         loaded == [s EXCEPT !.dst_from = dst_tile_id]
     IN cores' = [cores EXCEPT ![c] =
          [SetSlot(s, dst, dst_tile_id, dst_data) EXCEPT
             !.pc = "elem",
             !.elem_idx = s.elem_idx + 1,
             !.xfer = <<Transfer("read", dst, dst_tile_id)>>,
             !.events = ReadEvents(dst, dst_tile_id, SlotTile(s, dst), s)
                        \o <<SlotEvent("store", dst, dst_tile_id, dst_tile_id, loaded)>>,
             !.touched = @ \cup {dst_tile_id},
             !.dirty = TRUE,
             !.dst_from = dst_tile_id]]
  /\ UNCHANGED <<hostVars, bufVars>>

\* after the loop: write back the last modified destination tile
MultiFlush(c) ==
  /\ host_pc = "enqueued"
  /\ op \in {"multi_gather", "multi_scatter"}
  /\ cores[c].pc = "flush"
  /\ LET s == cores[c]
         dst == DestOf(op)
     IN IF SlotTile(s, dst) # UINT32_MAX
        THEN /\ dram' = noc_async_write_tile(dst, SlotTile(s, dst), SlotL1(s, dst))
             /\ cores' = [cores EXCEPT ![c] =
                  [s EXCEPT !.pc = "done",
                            !.xfer = <<Transfer("write", dst, SlotTile(s, dst))>>,
                            !.events = WriteEvents(dst, SlotTile(s, dst), SlotTile(s, dst), s),
                            !.writes = @ + 1,
                            !.dirty = FALSE]]
        ELSE /\ dram' = dram
             /\ cores' = [cores EXCEPT ![c] =
                  [s EXCEPT !.pc = "done", !.xfer = <<>>, !.events = <<>>]]
  /\ UNCHANGED <<hostVars, lifeVars, buffer_sizes_, last_call>>

(* ----------- gather-scatter kernel (gather_scatter_kernel.cpp) ---------- *)

\* the kernel at entry on its runtime arguments a: nothing is loaded and
\* last_gather_tile and last_scatter_tile are UINT32_MAX
GatherScatterCore(a) ==
  [pc |-> "pattern",
   start_element |-> a.start_element,
   end_element |-> U32(a.start_element + a.num_elements_per_core),
   delta_gather |-> a.delta_gather, delta_scatter |-> a.delta_scatter,
   pattern_length |-> a.pattern_length,
   elem_idx |-> a.start_element,
   last_gather_tile |-> UINT32_MAX, last_scatter_tile |-> UINT32_MAX,
   pattern_gather_l1 |-> JunkTile, pattern_scatter_l1 |-> JunkTile,
   sparse_gather_l1 |-> JunkTile, sparse_scatter_l1 |-> JunkTile,
   src_value |-> JunkCell, dst_index |-> 0,
   xfer |-> <<>>,
   events |-> <<>>, writes |-> 0, touched |-> {}, dirty |-> FALSE, dst_from |-> UINT32_MAX]

\* tile 0 of both pattern buffers is read once, under one barrier
GatherScatterPattern(c) ==
  /\ host_pc = "enqueued"
  /\ op = "gather_scatter"
  /\ cores[c].pc = "pattern"
  /\ LET s == cores[c]
     IN cores' = [cores EXCEPT ![c] =
          [s EXCEPT !.pc = "elem",
                    !.pattern_gather_l1 = noc_async_read_tile("pattern_gather", 0),
                    !.pattern_scatter_l1 = noc_async_read_tile("pattern_scatter", 0),
                    !.xfer = <<Transfer("read", "pattern_gather", 0),
                               Transfer("read", "pattern_scatter", 0)>>,
                    !.events = <<SlotEvent("read", "pattern_gather", 0, UINT32_MAX, s),
                                 SlotEvent("read", "pattern_scatter", 0, UINT32_MAX, s),
                                 SlotEvent("read_barrier", "pattern_scatter", 0, UINT32_MAX, s)>>]]
  /\ UNCHANGED <<hostVars, bufVars>>

\* head of the element loop and one element up to the destination tile
\* check: both indices, the source tile through its cache, the source value;
\* the element is stored at once when the destination tile is the cached one
GatherScatterElem(c) ==
  /\ host_pc = "enqueued"
  /\ op = "gather_scatter"
  /\ cores[c].pc = "elem"
  /\ LET s == cores[c]
         pattern_idx == s.elem_idx % s.pattern_length
         iteration == s.elem_idx \div s.pattern_length
     IN IF s.elem_idx >= s.end_element
        THEN cores' = [cores EXCEPT ![c] =
               [s EXCEPT !.pc = "flush", !.xfer = <<>>, !.events = <<>>]]
        ELSE \E pattern_gather_word \in WordValues(s.pattern_gather_l1, pattern_idx),
                pattern_scatter_word \in WordValues(s.pattern_scatter_l1, pattern_idx) :
               LET src_index == U32(pattern_gather_word + s.delta_gather * iteration)
                   dst_index == U32(pattern_scatter_word + s.delta_scatter * iteration)
                   src_tile_idx == src_index \div elements_per_tile
                   src_elem_offset == src_index % elements_per_tile
                   dst_tile_idx == dst_index \div elements_per_tile
                   dst_elem_offset == dst_index % elements_per_tile
                   sparse_gather_data ==
                     CachedLoad("sparse_gather", src_tile_idx, s.last_gather_tile,
                                s.sparse_gather_l1)
                   src_value == sparse_gather_data[src_elem_offset + 1]
                   r == [s EXCEPT
                           !.last_gather_tile = src_tile_idx,
                           !.sparse_gather_l1 = sparse_gather_data,
                           !.src_value = src_value,
                           !.dst_index = dst_index,
                           !.xfer = LoadTransfer("sparse_gather", src_tile_idx,
                                                 s.last_gather_tile),
                           !.events = <<SlotEvent("load", "pattern_gather", 0, 0, s),
                                        SlotEvent("load", "pattern_scatter", 0, 0, s)>>
                                      \o CachedEvents("sparse_gather", src_tile_idx,
                                                      s.last_gather_tile, s)]
               IN cores' = [cores EXCEPT ![c] =
                    IF dst_tile_idx = s.last_scatter_tile
                    THEN [r EXCEPT
                            !.sparse_scatter_l1 =
                               [@ EXCEPT ![dst_elem_offset + 1] = src_value],
                            !.elem_idx = s.elem_idx + 1,
                            !.events = @ \o <<SlotEvent("store", "sparse_scatter", dst_tile_idx,
                                                        s.last_scatter_tile, s)>>,
                            !.touched = @ \cup {dst_tile_idx},
                            !.dirty = TRUE]
                    ELSE [r EXCEPT !.pc = IF s.last_scatter_tile # UINT32_MAX
                                          THEN "writeback" ELSE "load"]]
  /\ UNCHANGED <<hostVars, bufVars>>

GatherScatterWriteBack_mutSkip(c) ==
  /\ host_pc = "enqueued"
  /\ op = "gather_scatter"
  /\ cores[c].pc = "writeback"
  /\ cores' = [cores EXCEPT ![c] = [cores[c] EXCEPT !.pc = "load", !.events = <<>>]]
  /\ UNCHANGED <<hostVars, bufVars>>

\* if (last_scatter_tile != UINT32_MAX): the cached destination tile goes
\* back to bulk memory before its slot is reused
GatherScatterWriteBack(c) ==
  /\ host_pc = "enqueued"
  /\ op = "gather_scatter"
  /\ cores[c].pc = "writeback"
  /\ LET s == cores[c]
     IN /\ dram' = noc_async_write_tile("sparse_scatter", s.last_scatter_tile,
                                        s.sparse_scatter_l1)
        /\ cores' = [cores EXCEPT ![c] =
             [s EXCEPT !.pc = "load",
                       !.xfer = <<Transfer("write", "sparse_scatter", s.last_scatter_tile)>>,
                       !.events = WriteEvents("sparse_scatter", s.last_scatter_tile,
                                              s.last_scatter_tile, s),
                       !.writes = @ + 1,
                       !.dirty = FALSE]]
  /\ UNCHANGED <<hostVars, lifeVars, buffer_sizes_, last_call>>

\* the destination tile of the element is read for the read-modify-write
\* and the element is stored into it
GatherScatterLoad(c) ==
  /\ host_pc = "enqueued"
  /\ op = "gather_scatter"
  /\ cores[c].pc = "load"
  /\ LET s == cores[c]
         dst_tile_idx == s.dst_index \div elements_per_tile
         dst_elem_offset == s.dst_index % elements_per_tile
         loaded == [s EXCEPT !.dst_from = dst_tile_idx]
     IN cores' = [cores EXCEPT ![c] =
          [s EXCEPT !.pc = "elem",
                    !.elem_idx = s.elem_idx + 1,
                    !.last_scatter_tile = dst_tile_idx,
                    !.sparse_scatter_l1 =
                       [noc_async_read_tile("sparse_scatter", dst_tile_idx)
                          EXCEPT ![dst_elem_offset + 1] = s.src_value],
                    !.xfer = <<Transfer("read", "sparse_scatter", dst_tile_idx)>>,
                    !.events = ReadEvents("sparse_scatter", dst_tile_idx,
                                          s.last_scatter_tile, s)
                               \o <<SlotEvent("store", "sparse_scatter", dst_tile_idx,
                                              dst_tile_idx, loaded)>>,
                    !.touched = @ \cup {dst_tile_idx},
                    !.dirty = TRUE,
                    !.dst_from = dst_tile_idx]]
  /\ UNCHANGED <<hostVars, bufVars>>

GatherScatterFlush_mutUnguarded(c) ==
  /\ host_pc = "enqueued"
  /\ op = "gather_scatter"
  /\ cores[c].pc = "flush"
  /\ LET s == cores[c]
         tile == IF s.last_scatter_tile # UINT32_MAX THEN s.last_scatter_tile ELSE 0
     IN /\ dram' = noc_async_write_tile("sparse_scatter", tile, s.sparse_scatter_l1)
        /\ cores' = [cores EXCEPT ![c] =
             [s EXCEPT !.pc = "done",
                       !.xfer = <<Transfer("write", "sparse_scatter", tile)>>,
                       !.events = WriteEvents("sparse_scatter", tile, s.last_scatter_tile, s),
                       !.writes = @ + 1,
                       !.dirty = FALSE]]
  /\ UNCHANGED <<hostVars, lifeVars, buffer_sizes_, last_call>>

GatherScatterFlush_mutNoFlush(c) ==
  /\ host_pc = "enqueued"
  /\ op = "gather_scatter"
  /\ cores[c].pc = "flush"
  /\ cores' = [cores EXCEPT ![c] = [cores[c] EXCEPT !.pc = "done", !.events = <<>>]]
  /\ UNCHANGED <<hostVars, bufVars>>

\* after the loop: the last modified destination tile is written back
GatherScatterFlush(c) ==
  /\ host_pc = "enqueued"
  /\ op = "gather_scatter"
  /\ cores[c].pc = "flush"
  /\ LET s == cores[c]
     IN IF s.last_scatter_tile # UINT32_MAX
        THEN /\ dram' = noc_async_write_tile("sparse_scatter", s.last_scatter_tile,
                                             s.sparse_scatter_l1)
             /\ cores' = [cores EXCEPT ![c] =
                  [s EXCEPT !.pc = "done",
                            !.xfer = <<Transfer("write", "sparse_scatter", s.last_scatter_tile)>>,
                            !.events = WriteEvents("sparse_scatter", s.last_scatter_tile,
                                                   s.last_scatter_tile, s),
                            !.writes = @ + 1,
                            !.dirty = FALSE]]
        ELSE /\ dram' = dram
             /\ cores' = [cores EXCEPT ![c] =
                  [s EXCEPT !.pc = "done", !.xfer = <<>>, !.events = <<>>]]
  /\ UNCHANGED <<hostVars, lifeVars, buffer_sizes_, last_call>>

(* ------------------------------ launch -------------------------------- *)

\* the kernel state a core starts in / has ended in, by entry point
CoreStart(b) == IF op = "gather" THEN GatherCore(b) ELSE ScatterCore(b)

CoreDone(s) == IF op = "gather" THEN GatherDone(s) ELSE s.pc = "done"

\* EnqueueProgram(*command_queue_, program, false): every core the program
\* holds arguments for starts its kernel(s) on them, whether they were set
\* by this call or by an earlier one
EnqueueProgram ==
  /\ host_pc = "groups"
  /\ grp = 3
  /\ host_pc' = "enqueued"
  /\ cores' = [c \in DOMAIN program_args[op] |-> CoreStart(program_args[op][c])]
  /\ UNCHANGED <<callVars, split, grp,
                 core_i, work_offset, cores_configured, bound, program_args>>
  /\ UNCHANGED bufVars

\* the kernels compile_kernels creates in each program: three in
\* gather_program_, none in scatter_program_ (CreateProgram() only; no
\* CreateKernel assigns scatter_reader_kernel_handle_), one in
\* noc_bandwidth_program_
compile_kernels ==
  [gather |-> {"reader_gather", "gather_compute", "writer_gather"},
   scatter |-> {},
   noc |-> {"noc_bandwidth_kernel"}]

\* EnqueueProgram on the program as compile_kernels built it: the cores run
\* the kernels the program contains, and a program without a kernel runs
\* nothing on any core
EnqueueCompiledProgram ==
  /\ host_pc = "groups"
  /\ grp = 3
  /\ host_pc' = "enqueued"
  /\ cores' = IF compile_kernels[op] = {} THEN <<>>
              ELSE [c \in DOMAIN program_args[op] |-> CoreStart(program_args[op][c])]
  /\ UNCHANGED <<callVars, split, grp,
                 core_i, work_offset, cores_configured, bound, program_args>>
  /\ UNCHANGED bufVars

Finish_mutNoWait ==
  /\ host_pc = "enqueued"
  /\ host_pc' = "returned"
  /\ UNCHANGED <<callVars, split, grp,
                 core_i, work_offset, cores_configured, bound, program_args>>
  /\ UNCHANGED nonHostVars

\* Finish(*command_queue_): returns when the kernels of every core have ended
Finish ==
  /\ host_pc = "enqueued"
  /\ \A c \in DOMAIN cores : CoreDone(cores[c])
  /\ host_pc' = "returned"
  /\ UNCHANGED <<callVars, split, grp,
                 core_i, work_offset, cores_configured, bound, program_args>>
  /\ UNCHANGED nonHostVars

\* the host is about to make the device call named
AboutToCall(call) ==
  \/ /\ call = "SetRuntimeArgs"
     /\ CoreToBind
     /\ GroupWork(split, grp) # 0
     /\ NoHandle \notin {src_buffer, dst_buffer, pattern_buffer}
  \/ /\ call = "EnqueueProgram"
     /\ host_pc = "groups"
     /\ grp = 3
  \/ /\ call = "Finish"
     /\ host_pc = "enqueued"

DeviceException_mutEscape ==
  \E call \in {"SetRuntimeArgs", "EnqueueProgram", "Finish"} :
    /\ AboutToCall(call)
    /\ host_pc' = "escaped"
    /\ last_call' = [last_call EXCEPT !.outcome = "exception", !.device = <<call>>]
    /\ UNCHANGED <<callVars, split, grp, core_i, work_offset, cores_configured, bound,
                   program_args, lifeVars, dram, buffer_sizes_, cores>>

\* a device call of the entry point throws: control passes to
\* `catch (const std::exception& e)`, which returns false
DeviceException ==
  \E call \in {"SetRuntimeArgs", "EnqueueProgram", "Finish"} :
    /\ AboutToCall(call)
    /\ host_pc' = "returned_false"
    /\ last_call' = [last_call EXCEPT !.outcome = "exception", !.device = <<call>>]
    /\ UNCHANGED <<callVars, split, grp, core_i, work_offset, cores_configured, bound,
                   program_args, lifeVars, dram, buffer_sizes_, cores>>

(* ----------------------- the calls of a session ----------------------- *)

\* the host is in no call and the process has not ended
HostFree ==
  /\ host_pc \in {"idle", "returned", "returned_false"}
  /\ last_call.outcome # "crash"

\* a buffer-manager call between launches: it leaves the launch state alone
ApiCall(call) ==
  /\ HostFree
  /\ call
  /\ UNCHANGED <<hostVars, kernVars>>

\* how initialize() fails: CreateDevice returns no device; CreateDevice
\* throws; a step after the assignment of command_queue_ throws
InitializeFailures == {"no_device", "CreateDevice_throws", "discover_cores_throws"}

\* initialize(): device_ = CreateDevice, command_queue_, discover_cores,
\* compile_kernels (which creates the programs anew), initialized_ = true;
\* when CreateDevice returns no device or a step throws, false is returned
\* and initialized_ is left as it is
initialize(created) ==
  /\ HostFree
  /\ last_call' = Failed("initialize", NoHandle, <<>>, IF created THEN "true" ELSE "false",
                         <<"CreateDevice">>)
  /\ initialized_' = (created \/ initialized_)
  /\ IF created
     THEN /\ device_' = "IDevice"
          /\ command_queue_' = "CommandQueue"
     ELSE \E failure \in InitializeFailures :
            /\ device_' = CASE failure = "no_device" -> "nullptr"
                             [] failure = "CreateDevice_throws" -> device_
                             [] OTHER -> "IDevice"
            /\ command_queue_' = IF failure = "discover_cores_throws" THEN "CommandQueue"
                                  ELSE command_queue_
  /\ program_args' = IF created THEN NoProgramArgs ELSE program_args
  /\ effective_grid_size_' = IF created THEN discover_cores(compute_grid_size_, num_cores_)
                                         ELSE effective_grid_size_
  /\ UNCHANGED <<deviceVars, op, num_elements, delta, src_buffer, dst_buffer, pattern_buffer,
                 host_pc, split, grp, core_i, work_offset,
                 cores_configured, bound, dram, buffer_sizes_, cores>>

\* cleanup(): if (device_) { CloseDevice, device_ = nullptr, command_queue_ =
\* nullptr }, initialized_ = false; the memory of the closed device is no
\* longer defined, the handles and the side-table stay
cleanup ==
  /\ HostFree
  /\ last_call' = Failed("cleanup", NoHandle, <<>>, "ok",
                         IF device_ # "nullptr" THEN <<"CloseDevice">> ELSE <<>>)
  /\ initialized_' = FALSE
  /\ device_' = "nullptr"
  /\ command_queue_' = IF device_ # "nullptr" THEN "nullptr" ELSE command_queue_
  /\ dram' = [h \in DOMAIN dram |-> Zeros(Len(dram[h]), JunkCell)]
  /\ UNCHANGED <<hostVars, buffer_sizes_, cores>>

\* a call of executeGatherKernel (o = "gather") or executeScatterKernel
\* (o = "scatter") on its arguments
CallEntryPoint(o, src, dst, pattern, n, d) ==
  /\ HostFree
  /\ op' = o
  /\ src_buffer' = src
  /\ dst_buffer' = dst
  /\ pattern_buffer' = pattern
  /\ num_elements' = n
  /\ delta' = d
  /\ host_pc' = "entry"
  /\ split' = NoSplit
  /\ grp' = 0
  /\ core_i' = 0
  /\ work_offset' = 0
  /\ cores_configured' = 0
  /\ bound' = <<>>
  /\ last_call' = Failed(IF o = "gather" THEN "executeGatherKernel" ELSE "executeScatterKernel",
                         NoHandle, <<src, dst, pattern, n, d>>, "called", <<>>)
  /\ UNCHANGED <<deviceVars, effective_grid_size_, program_args, lifeVars, dram,
                 buffer_sizes_, cores>>

\* execute_gather_kernel(src_buffer, dst_buffer, pattern_buffer, num_elements):
\* scratch buffer from allocate_buffer, the addresses of the three buffers,
\* no SetRuntimeArgs (active_cores_ is never filled), EnqueueProgram of the
\* gather program; Finish follows
execute_gather_kernel(src, dst, pattern, n) ==
  /\ HostFree
  /\ IF ~initialized_
     THEN /\ NotInitialized("execute_gather_kernel", NoHandle, <<src, dst, pattern, n>>)
          /\ UNCHANGED <<hostVars, kernVars>>
     ELSE IF NoHandle \in {src, dst, pattern}
     THEN /\ last_call' = Failed("execute_gather_kernel", NoHandle, <<src, dst, pattern, n>>,
                                 "crash", <<"CreateBuffer">>)
          /\ UNCHANGED <<lifeVars, dram, buffer_sizes_, hostVars, kernVars>>
     ELSE /\ last_call' = Failed("execute_gather_kernel", NoHandle, <<src, dst, pattern, n>>,
                                 "called", <<"CreateBuffer", "EnqueueProgram">>)
          /\ op' = "gather"
          /\ src_buffer' = src
          /\ dst_buffer' = dst
          /\ pattern_buffer' = pattern
          /\ num_elements' = n
          /\ host_pc' = "enqueued"
          /\ split' = NoSplit
          /\ grp' = 0
          /\ core_i' = 0
          /\ work_offset' = 0
          /\ cores_configured' = 0
          /\ bound' = <<>>
          /\ cores' = [c \in DOMAIN program_args["gather"] |-> GatherCore(program_args["gather"][c])]
          /\ UNCHANGED <<deviceVars, effective_grid_size_, delta, program_args,
                         lifeVars, dram, buffer_sizes_>>

(* ------------- bandwidth kernel (noc_bandwidth_kernel.cpp) ------------ *)

\* the argument vectors get_arg_val can return on the core of the bandwidth
\* program: SetRuntimeArgs is guarded by `!active_cores_.empty()` and
\* active_cores_ is never filled, so the five arguments are never set and the
\* kernel reads whatever the argument area holds (addresses in tiles)
NocArgValues ==
  [source_addr : {0, 1}, dest_addr : {0, 1}, num_tiles : 0..MaxNocTiles,
   neighbor_noc : {<<0, 1>>, <<1, 0>>}]

\* the kernel at entry; its staging area and the scratch memory of the
\* neighbour hold nothing the host has written
NocCore(args) ==
  [pc |-> "read", tile |-> 0, args |-> args, staging |-> JunkTile,
   neighbor_l1 |-> <<>>, xfer |-> <<>>, events |-> <<>>]

\* execute_noc_bandwidth_kernel(src_buffer, dst_buffer, num_tiles,
\* neighbor_x, neighbor_y): the argument vector is built from the buffer
\* addresses, no SetRuntimeArgs, EnqueueProgram of the bandwidth program;
\* Finish follows
execute_noc_bandwidth_kernel(src, dst, num_tiles, neighbor_x, neighbor_y) ==
  /\ HostFree
  /\ IF ~initialized_
     THEN /\ NotInitialized("execute_noc_bandwidth_kernel", NoHandle,
                            <<src, dst, num_tiles, neighbor_x, neighbor_y>>)
          /\ UNCHANGED <<hostVars, kernVars>>
     ELSE IF NoHandle \in {src, dst}
     THEN /\ last_call' = Failed("execute_noc_bandwidth_kernel", NoHandle,
                                 <<src, dst, num_tiles, neighbor_x, neighbor_y>>, "crash", <<>>)
          /\ UNCHANGED <<lifeVars, dram, buffer_sizes_, hostVars, kernVars>>
     ELSE /\ last_call' = Failed("execute_noc_bandwidth_kernel", NoHandle,
                                 <<src, dst, num_tiles, neighbor_x, neighbor_y>>,
                                 "called", <<"EnqueueProgram">>)
          /\ op' = "noc"
          /\ src_buffer' = src
          /\ dst_buffer' = dst
          /\ host_pc' = "enqueued"
          /\ split' = NoSplit
          /\ grp' = 0
          /\ core_i' = 0
          /\ work_offset' = 0
          /\ cores_configured' = 0
          /\ bound' = <<>>
          /\ \E args \in NocArgValues : cores' = <<NocCore(args)>>
          /\ UNCHANGED <<deviceVars, effective_grid_size_, num_elements, delta, pattern_buffer,
                         program_args, lifeVars, dram, buffer_sizes_>>

\* head of the tile loop and noc_async_read(current_src_addr, l1_buffer_addr,
\* tile_size_bytes) with its barrier: the source address is read as an
\* address of the core's own scratch memory
NocRead(c) ==
  /\ host_pc = "enqueued"
  /\ op = "noc"
  /\ cores[c].pc = "read"
  /\ LET s == cores[c]
     IN cores' = [cores EXCEPT ![c] =
          IF s.tile >= s.args.num_tiles
          THEN [s EXCEPT !.pc = "done", !.xfer = <<>>, !.events = <<>>]
          ELSE [s EXCEPT !.pc = "write",
                         !.staging = JunkTile,
                         !.xfer = <<Transfer("read", "l1", s.args.source_addr + s.tile)>>,
                         !.events = ReadEvents("l1_buffer", s.args.source_addr + s.tile,
                                               UINT32_MAX, NoDestination)]]
  /\ UNCHANGED <<hostVars, bufVars>>

\* noc_async_write(l1_buffer_addr, get_noc_addr(neighbor_noc_x,
\* neighbor_noc_y, current_dest_addr), tile_size_bytes) with its barrier: the
\* tile goes to the scratch memory of the neighbour core
NocWrite(c) ==
  /\ host_pc = "enqueued"
  /\ op = "noc"
  /\ cores[c].pc = "write"
  /\ LET s == cores[c]
     IN cores' = [cores EXCEPT ![c] =
          [s EXCEPT !.pc = "read",
                    !.tile = s.tile + 1,
                    !.neighbor_l1 = Record(@, s.args.dest_addr + s.tile, s.staging),
                    !.xfer = <<Transfer("write", "neighbor_l1", s.args.dest_addr + s.tile)>>,
                    !.events = WriteEvents("l1_buffer", s.args.dest_addr + s.tile,
                                           UINT32_MAX, NoDestination)]]
  /\ UNCHANGED <<hostVars, bufVars>>

(* ------------------ specification: the work split --------------------- *)

Grids == {[x |-> x, y |-> y] : x \in 1..MaxGridX, y \in 1..MaxGridY}

InitHost(ops, grids, counts, deltas) ==
  /\ op \in ops
  /\ effective_grid_size_ \in grids
  /\ compute_grid_size_ = effective_grid_size_
  /\ num_cores_ = 0
  /\ num_elements \in counts
  /\ delta \in deltas
  /\ src_buffer = (IF op = "gather" THEN "sparse" ELSE "dense")
  /\ dst_buffer = (IF op = "gather" THEN "dense" ELSE "sparse")
  /\ pattern_buffer = "pattern"
  /\ host_pc = "entry"
  /\ split = NoSplit
  /\ grp = 0
  /\ core_i = 0
  /\ work_offset = 0
  /\ cores_configured = 0
  /\ bound = <<>>
  /\ program_args = NoProgramArgs

\* an initialised device on which nothing was allocated yet
InitBuf ==
  /\ initialized_ = TRUE
  /\ device_ = "IDevice"
  /\ command_queue_ = "CommandQueue"
  /\ dram = <<>>
  /\ buffer_sizes_ = <<>>
  /\ last_call = NoCall

InitSplit ==
  /\ InitHost({"gather", "scatter"}, Grids, 0..MaxElements, {0})
  /\ InitBuf
  /\ cores = <<>>

NextSplit == SplitWork \/ SkipGroup \/ BindCore \/ NextGroup \/ EnqueueProgram

SpecSplit == InitSplit /\ [][NextSplit]_vars

(* ---------------- specification: the buffer manager ------------------- *)

\* the values callers write: 1, 2, 3, ... and 257, 258, 259, ... (the second
\* family is narrowed by the conversion)
DoubleData == {[i \in 1..n |-> base + i] : n \in 0..MaxWriteLen, base \in {0, 256}}

\* index vectors: 0, 1, 2, ...
U32Data == {[i \in 1..n |-> i - 1] : n \in 0..MaxWriteLen}

\* requests that round up to one tile and to two tiles
AllocSizes == {1, TILE_SIZE_BYTES, TILE_SIZE_BYTES + 1}

NextBuf ==
  \/ \E size_bytes \in AllocSizes : allocate_buffer(size_bytes) /\ UNCHANGED <<hostVars, kernVars>>
  \/ \E b \in Handles, d \in DoubleData : write_buffer(b, d) /\ UNCHANGED <<hostVars, kernVars>>
  \/ \E b \in Handles, d \in U32Data : writeBuffer(b, d) /\ UNCHANGED <<hostVars, kernVars>>
  \/ \E b \in Handles : read_buffer(b) /\ UNCHANGED <<hostVars, kernVars>>

\* no launch is in progress while the buffer manager is exercised
InitBufSpec ==
  /\ InitHost({"gather"}, {[x |-> 1, y |-> 1]}, {0}, {0})
  /\ InitBuf
  /\ cores = <<>>

SpecBuf == InitBufSpec /\ [][NextBuf]_vars

(* ------------------ specification: allocation sizes ------------------ *)

\* every value of size_t
SizeValues == 0..((2 ^ SizeBits) - 1)

NextAlloc ==
  \E size_bytes \in SizeValues : allocate_buffer(size_bytes) /\ UNCHANGED <<hostVars, kernVars>>

SpecAlloc == InitBufSpec /\ [][NextAlloc]_vars

(* ------------------- specification: a session of calls ----------------- *)

\* grid of the session: two cores
SessionGrid == [x |-> 2, y |-> 1]

\* a device object after construction, before initialize()
InitSession ==
  /\ op = "gather"
  /\ effective_grid_size_ = NoGrid
  /\ compute_grid_size_ = SessionGrid
  /\ num_cores_ = 0
  /\ num_elements = 0
  /\ delta = 0
  /\ src_buffer = NoHandle
  /\ dst_buffer = NoHandle
  /\ pattern_buffer = NoHandle
  /\ host_pc = "idle"
  /\ split = NoSplit
  /\ grp = 0
  /\ core_i = 0
  /\ work_offset = 0
  /\ cores_configured = 0
  /\ bound = <<>>
  /\ program_args = NoProgramArgs
  /\ initialized_ = FALSE
  /\ device_ = "nullptr"
  /\ command_queue_ = "nullptr"
  /\ dram = <<>>
  /\ buffer_sizes_ = <<>>
  /\ last_call = NoCall
  /\ cores = <<>>

\* the values the calls of a session write: nothing, or two values
SessionDoubles == {<<>>, <<1, 2>>}

SessionWords == {<<>>, <<0, 1>>}

\* the handles a call is given: a buffer, or null
HandleArgs == Handles \cup {NoHandle}

\* the handle triples of the entry points: one buffer in the three roles, with
\* the source or the pattern null instead; three nulls
HandleTriples ==
  {<<NoHandle, NoHandle, NoHandle>>}
  \cup {<<h, h, h>> : h \in Handles}
  \cup {<<NoHandle, h, h>> : h \in Handles}
  \cup {<<h, h, NoHandle>> : h \in Handles}

\* the launches of a session are those that end before a kernel runs on data:
\* no elements, a null handle, or an uninitialised device (launches over data
\* are the subject of the launch specifications)
SessionLaunch(hs, n) ==
  \/ n = 0
  \/ ~initialized_
  \/ NoHandle \in {hs[1], hs[2], hs[3]}

NextSession ==
  \/ \E created \in BOOLEAN : initialize(created)
  \/ cleanup
  \/ Handles = {} /\ ApiCall(allocate_buffer(TILE_SIZE_BYTES))
  \/ \E b \in HandleArgs, d \in SessionDoubles : ApiCall(write_buffer(b, d))
  \/ \E b \in HandleArgs, d \in SessionWords : ApiCall(writeBuffer(b, d))
  \/ \E b \in HandleArgs : ApiCall(read_buffer(b))
  \/ \E hs \in HandleTriples, n \in {0, 1} :
       ApiCall(execute_scatter_kernel(hs[1], hs[2], hs[3], n))
  \/ \E hs \in HandleTriples : execute_gather_kernel(hs[1], hs[2], hs[3], 0)
  \/ \E o \in {"gather", "scatter"}, hs \in HandleTriples, n \in {0, 1} :
       SessionLaunch(hs, n) /\ CallEntryPoint(o, hs[1], hs[2], hs[3], n, 0)
  \/ ReturnFalse
  \/ SplitWork
  \/ SkipGroup
  \/ BindCore
  \/ NextGroup
  \/ EnqueueProgram
  \/ Finish

SpecSession == InitSession /\ [][NextSession]_vars

(* ---------------- specification: core discovery ----------------------- *)

\* the core budgets of the constructor: negative, zero (the default), positive
RequestedCores == (0 - 1)..MaxRequested

\* a device object after construction, for every grid of the device and
\* every core budget
InitDiscover ==
  /\ compute_grid_size_ \in Grids
  /\ num_cores_ \in RequestedCores
  /\ effective_grid_size_ = NoGrid
  /\ op = "gather"
  /\ num_elements = 0
  /\ delta = 0
  /\ src_buffer = NoHandle
  /\ dst_buffer = NoHandle
  /\ pattern_buffer = NoHandle
  /\ host_pc = "idle"
  /\ split = NoSplit
  /\ grp = 0
  /\ core_i = 0
  /\ work_offset = 0
  /\ cores_configured = 0
  /\ bound = <<>>
  /\ program_args = NoProgramArgs
  /\ initialized_ = FALSE
  /\ device_ = "nullptr"
  /\ command_queue_ = "nullptr"
  /\ dram = <<>>
  /\ buffer_sizes_ = <<>>
  /\ last_call = NoCall
  /\ cores = <<>>

NextDiscover ==
  \/ \E created \in BOOLEAN : initialize(created)
  \/ cleanup

SpecDiscover == InitDiscover /\ [][NextDiscover]_vars

(* ----------------- specification: a scatter launch -------------------- *)

\* grids of one, two and three cores
LaunchGrids == {[x |-> 1, y |-> 1], [x |-> 2, y |-> 1], [x |-> 3, y |-> 1]}

\* the dense values 100, 101, ... and the sparse values 10, 11, ... a caller
\* wrote before the launch
DenseValues(n) == [k \in 1..n |-> 100 + (k - 1)]

SparseValues(n) == [k \in 1..n |-> 10 + (k - 1)]

\* a buffer of n elements of elem_size bytes as allocate_buffer creates it
FreshBuffer(n, elem_size) ==
  Zeros(AllocatedBytes(n * elem_size) \div SIZEOF_BFLOAT16, JunkCell)

\* the buffers of a launch: the pattern written by writeBuffer, the source
\* written by write_buffer; in a gather the destination is as allocated
InitLaunchBuffers(pattern, nsparse, ndense) ==
  /\ initialized_ = TRUE
  /\ device_ = "IDevice"
  /\ command_queue_ = "CommandQueue"
  /\ dram = [pattern |-> DeviceStore(FreshBuffer(Len(pattern), SIZEOF_UINT32),
                                     U32Cells(PaddedU32(pattern))),
             sparse  |-> DeviceStore(FreshBuffer(nsparse, SIZEOF_BFLOAT16),
                                     Bf16Cells(PaddedBf16(SparseValues(nsparse)))),
             dense   |-> IF op = "gather"
                         THEN FreshBuffer(ndense, SIZEOF_BFLOAT16)
                         ELSE DeviceStore(FreshBuffer(ndense, SIZEOF_BFLOAT16),
                                          Bf16Cells(PaddedBf16(DenseValues(ndense))))]
  /\ buffer_sizes_ = [pattern |-> Len(pattern), sparse |-> nsparse, dense |-> ndense]
  /\ last_call = NoCall

\* sparse elements of the launches explored (more than one tile)
SparseLen == 2 * elements_per_tile

ScatterPatterns == {<<0, 1>>, <<1, 0, 2>>, <<1>>, <<elements_per_tile + 1, 0>>}

InitScatter ==
  /\ InitHost({"scatter"}, LaunchGrids, 1..MaxScatterElements, {0, 1})
  /\ \E pattern \in ScatterPatterns : InitLaunchBuffers(pattern, SparseLen, num_elements)
  /\ cores = <<>>

NextScatter ==
  \/ SplitWork \/ SkipGroup \/ BindCore \/ NextGroup \/ EnqueueProgram
  \/ \E c \in DOMAIN cores : ScatterTile(c)
  \/ \E c \in DOMAIN cores : ScatterReadDst(c)
  \/ \E c \in DOMAIN cores : ScatterWriteDst(c)
  \/ Finish

SpecScatter == InitScatter /\ [][NextScatter]_vars

(* ------------------ specification: a gather launch -------------------- *)

\* the identity pattern and the reversal of n entries
GatherPatterns(n) == {[k \in 1..n |-> k - 1], [k \in 1..n |-> n - k]}

InitGather ==
  /\ InitHost({"gather"}, LaunchGrids, 1..MaxGatherElements, {0, 1})
  /\ \E pattern \in GatherPatterns(num_elements) :
       InitLaunchBuffers(pattern, SparseLen, num_elements)
  /\ cores = <<>>

NextGather ==
  \/ SplitWork \/ SkipGroup \/ BindCore \/ NextGroup \/ EnqueueProgram
  \/ \E c \in DOMAIN cores : ReaderPattern(c)
  \/ \E c \in DOMAIN cores : ReaderSparse(c)
  \/ \E c \in DOMAIN cores : GatherCompute(c)
  \/ \E c \in DOMAIN cores : GatherWriter(c)
  \/ Finish

SpecGather == InitGather /\ [][NextGather]_vars

(* ------------- specification: a launch after a launch ----------------- *)

\* grids of one and two cores
RelaunchGrids == {[x |-> 1, y |-> 1], [x |-> 2, y |-> 1]}

\* the values a caller gives a buffer between two launches
RelaunchValues == <<50, 51>>

\* a gather launch over data, as in SpecGather
InitRelaunch ==
  /\ InitHost({"gather"}, RelaunchGrids, 1..MaxGatherElements, {0})
  /\ \E pattern \in GatherPatterns(num_elements) :
       InitLaunchBuffers(pattern, SparseLen, num_elements)
  /\ cores = <<>>

\* the launch, then writes of the source or the destination and launches of
\* no elements on the same handles
NextRelaunch ==
  \/ SplitWork \/ SkipGroup \/ BindCore \/ NextGroup \/ EnqueueProgram
  \/ \E c \in DOMAIN cores : ReaderPattern(c)
  \/ \E c \in DOMAIN cores : ReaderSparse(c)
  \/ \E c \in DOMAIN cores : GatherCompute(c)
  \/ \E c \in DOMAIN cores : GatherWriter(c)
  \/ Finish
  \/ \E b \in {"sparse", "dense"} : ApiCall(write_buffer(b, RelaunchValues))
  \/ CallEntryPoint("gather", "sparse", "dense", "pattern", 0, 0)

SpecRelaunch == InitRelaunch /\ [][NextRelaunch]_vars

(* --------- specification: the gather pipeline, fairly scheduled -------- *)

MaxPipelineElements == 13

\* launches of up to three full tiles and one element on one and two cores
InitPipeline ==
  /\ InitHost({"gather"}, RelaunchGrids, 1..MaxPipelineElements, {0})
  /\ InitLaunchBuffers([k \in 1..num_elements |-> k - 1],
                       RoundUp(num_elements, elements_per_tile), num_elements)
  /\ cores = <<>>

\* the reader, the compute kernel and the writer of a core each run on a
\* processor of their own: each takes its next step unless it waits for a
\* circular buffer; the host thread runs the entry point to its end
PipelineFairness ==
  /\ WF_vars(SplitWork \/ SkipGroup \/ BindCore \/ NextGroup \/ EnqueueProgram \/ Finish)
  /\ \A c \in 1..(MaxGridX * MaxGridY) :
       /\ WF_vars(c \in DOMAIN cores /\ (ReaderPattern(c) \/ ReaderSparse(c)))
       /\ WF_vars(c \in DOMAIN cores /\ GatherCompute(c))
       /\ WF_vars(c \in DOMAIN cores /\ GatherWriter(c))

SpecPipeline == InitPipeline /\ [][NextGather]_vars /\ PipelineFairness

(* ------------- specification: the bandwidth kernel launch -------------- *)

\* the values the caller writes to the source: 0, 1, 2, ...
NocValues(num_tiles) == [i \in 1..(num_tiles * elements_per_tile) |-> i - 1]

\* an initialised device with a written source buffer h1 and an allocated
\* destination buffer h2 of the same number of tiles
InitNoc ==
  /\ compute_grid_size_ = SessionGrid
  /\ num_cores_ = 0
  /\ effective_grid_size_ = SessionGrid
  /\ op = "gather"
  /\ num_elements = 0
  /\ delta = 0
  /\ src_buffer = NoHandle
  /\ dst_buffer = NoHandle
  /\ pattern_buffer = NoHandle
  /\ host_pc = "idle"
  /\ split = NoSplit
  /\ grp = 0
  /\ core_i = 0
  /\ work_offset = 0
  /\ cores_configured = 0
  /\ bound = <<>>
  /\ program_args = NoProgramArgs
  /\ initialized_ = TRUE
  /\ device_ = "IDevice"
  /\ command_queue_ = "CommandQueue"
  /\ \E num_tiles \in 1..MaxNocTiles :
       /\ dram = [h1 |-> DeviceStore(FreshBuffer(num_tiles * elements_per_tile, SIZEOF_BFLOAT16),
                                     Bf16Cells(PaddedBf16(NocValues(num_tiles)))),
                  h2 |-> FreshBuffer(num_tiles * elements_per_tile, SIZEOF_BFLOAT16)]
       /\ buffer_sizes_ = [h1 |-> num_tiles * elements_per_tile]
  /\ last_call = NoCall
  /\ cores = <<>>

NextNoc ==
  \/ \E neighbor \in {<<0, 1>>, <<1, 0>>} :
       execute_noc_bandwidth_kernel("h1", "h2", Len(dram["h1"]) \div elements_per_tile,
                                    neighbor[1], neighbor[2])
  \/ \E c \in DOMAIN cores : NocRead(c)
  \/ \E c \in DOMAIN cores : NocWrite(c)
  \/ Finish
  \/ \E b \in Handles : ApiCall(read_buffer(b))

SpecNoc == InitNoc /\ [][NextNoc]_vars

(* --------- specification: a launch whose device calls may throw ------- *)

NextThrow ==
  \/ SplitWork \/ SkipGroup \/ BindCore \/ NextGroup \/ EnqueueProgram
  \/ \E c \in DOMAIN cores : ReaderPattern(c)
  \/ \E c \in DOMAIN cores : ReaderSparse(c)
  \/ \E c \in DOMAIN cores : GatherCompute(c)
  \/ \E c \in DOMAIN cores : GatherWriter(c)
  \/ Finish
  \/ DeviceException

SpecThrow == InitRelaunch /\ [][NextThrow]_vars

(* ------- specification: the multi-gather / multi-scatter kernels ------- *)

\* pairs of a pattern and a first-level indirection over it, of one length
MultiPatterns ==
  {[pattern |-> <<1, 0>>, indirection |-> <<1, 0>>],
   [pattern |-> <<5, 6, 7>>, indirection |-> <<2, 0, 1>>],
   [pattern |-> <<(2 ^ WordBits) - 1, 2>>, indirection |-> <<0, 1>>]}

\* the count and wrap arguments explored
MultiShapes ==
  {[count |-> 2, wrap |-> 1], [count |-> 2, wrap |-> 2], [count |-> 3, wrap |-> 2]}

\* the four buffers of a multi kernel as the caller wrote them
InitMultiBuffers(pp) ==
  /\ initialized_ = TRUE
  /\ device_ = "IDevice"
  /\ command_queue_ = "CommandQueue"
  /\ dram = [pattern |-> DeviceStore(FreshBuffer(Len(pp.pattern), SIZEOF_UINT32),
                                     U32Cells(PaddedU32(pp.pattern))),
             pattern_gather |-> DeviceStore(FreshBuffer(Len(pp.indirection), SIZEOF_UINT32),
                                            U32Cells(PaddedU32(pp.indirection))),
             sparse  |-> DeviceStore(FreshBuffer(SparseLen, SIZEOF_BFLOAT16),
                                     Bf16Cells(PaddedBf16(SparseValues(SparseLen)))),
             dense   |-> DeviceStore(FreshBuffer(SparseLen, SIZEOF_BFLOAT16),
                                     Bf16Cells(PaddedBf16(DenseValues(SparseLen))))]
  /\ buffer_sizes_ = [pattern |-> Len(pp.pattern), pattern_gather |-> Len(pp.indirection),
                      sparse |-> SparseLen, dense |-> SparseLen]
  /\ last_call = NoCall

\* two cores on the ranges [0, cut) and [cut, num_elements) (the first one
\* empty or of one element); the kernels have no entry point on the host, the state starts
\* with the program enqueued
InitMultiLaunch(patterns) ==
  /\ op \in {"multi_gather", "multi_scatter"}
  /\ effective_grid_size_ = [x |-> 2, y |-> 1]
  /\ compute_grid_size_ = effective_grid_size_
  /\ num_cores_ = 0
  /\ num_elements = MaxMultiElements
  /\ delta \in {0, 3}
  /\ src_buffer = SourceOf(op)
  /\ dst_buffer = DestOf(op)
  /\ pattern_buffer = "pattern"
  /\ host_pc = "enqueued"
  /\ split = NoSplit
  /\ grp = 0
  /\ core_i = 0
  /\ work_offset = 0
  /\ cores_configured = 0
  /\ bound = <<>>
  /\ program_args = NoProgramArgs
  /\ \E pp \in patterns, cut \in {0, 1}, shape \in MultiShapes,
        sparse_size_elements \in {3, SparseLen} :
       /\ InitMultiBuffers(pp)
       /\ cores = [c \in 1..2 |->
            MultiCore([start_element |-> IF c = 1 THEN 0 ELSE cut,
                       end_element |-> IF c = 1 THEN cut ELSE num_elements,
                       pattern_length |-> Len(pp.pattern), delta |-> delta,
                       count |-> shape.count, wrap |-> shape.wrap,
                       sparse_size_elements |-> sparse_size_elements])]

InitMulti == InitMultiLaunch(MultiPatterns)

NextMulti ==
  \/ \E c \in DOMAIN cores : MultiEntry(c)
  \/ \E c \in DOMAIN cores : MultiElem(c)
  \/ \E c \in DOMAIN cores : MultiWriteBack(c)
  \/ \E c \in DOMAIN cores : MultiLoad(c)
  \/ \E c \in DOMAIN cores : MultiFlush(c)
  \/ Finish

SpecMulti == InitMulti /\ [][NextMulti]_vars

(* ---- specification: multi kernels, indirection entries unconstrained ---- *)

\* the patterns above and one whose indirection entry is not an index into
\* the pattern: nothing in the kernels or in the backend rejects it
IndirectionPatterns ==
  MultiPatterns \cup {[pattern |-> <<5>>, indirection |-> <<1>>]}

InitIndirection == InitMultiLaunch(IndirectionPatterns)

SpecIndirection == InitIndirection /\ [][NextMulti]_vars

(* ----------------------------- claims --------------------------------- *)

RangeOf(b) == {e \in 0..(b.work_offset + b.work_per_core - 1) : e >= b.work_offset}

BindingDone == host_pc = "enqueued"

\* C1: the (work_offset, work_per_core) pairs bound by executeGatherKernel and
\* executeScatterKernel, in binding order, are ranges that start at 0, are
\* contiguous and ordered, pairwise disjoint, and whose union is [0, N); the
\* accumulated work_offset after the last binding equals N.
C1_PartitionComplete ==
  BindingDone =>
    /\ (Len(bound) > 0 => bound[1].work_offset = 0)
    /\ \A k \in 1..(Len(bound) - 1) :
         /\ bound[k + 1].work_offset = bound[k].work_offset + bound[k].work_per_core
         /\ bound[k].work_offset < bound[k + 1].work_offset
    /\ \A k, m \in 1..Len(bound) : k # m => RangeOf(bound[k]) \cap RangeOf(bound[m]) = {}
    /\ UNION {RangeOf(bound[k]) : k \in 1..Len(bound)} = 0..(num_elements - 1)
    /\ work_offset = num_elements

C1_Witness ==
  /\ BindingDone
  /\ num_elements % NumCores(effective_grid_size_) # 0
  /\ num_elements > NumCores(effective_grid_size_)
  /\ Len(bound) >= 3

\* C10: the first N mod C cores are bound N div C + 1 elements each and the
\* remaining cores N div C each (a share of zero is not bound), so any two
\* bound ranges differ in size by at most 1.
C10_PartitionBalance ==
  BindingDone =>
    LET C == NumCores(effective_grid_size_)
        share(k) == (num_elements \div C) + (IF k <= num_elements % C THEN 1 ELSE 0)
    IN /\ Len(bound) = Cardinality({k \in 1..C : share(k) > 0})
       /\ \A k \in 1..Len(bound) :
            /\ bound[k].core = k
            /\ bound[k].work_per_core = share(k)
       /\ \A k, m \in 1..Len(bound) :
            /\ bound[k].work_per_core - bound[m].work_per_core <= 1
            /\ bound[m].work_per_core - bound[k].work_per_core <= 1

C10_Witness ==
  /\ BindingDone
  /\ Len(bound) >= 2
  /\ bound[1].work_per_core = bound[Len(bound)].work_per_core + 1
  /\ bound[Len(bound)].work_per_core >= 1

ReadAfterWrite ==
  /\ last_call.op = "read_buffer"
  /\ last_call.prev_op = "write_buffer"
  /\ last_call.prev_buffer = last_call.buffer

Converted(values) == [i \in 1..Len(values) |-> [t |-> "double", v |-> bfloat16(values[i])]]

\* C7 as stated: for any buffer and any N values, write_buffer followed at
\* once by read_buffer on the same handle returns exactly N values, the i-th
\* being the converted i-th written value.
C7_RoundTripAnyBuffer ==
  ReadAfterWrite =>
    /\ Len(last_call.result) = Len(last_call.prev_input)
    /\ last_call.result = Converted(last_call.prev_input)

\* C7 (amended): for any buffer and any N values that fit the buffer (N at
\* most the number of elements of its physical size), write_buffer followed
\* at once by read_buffer on the same handle returns exactly N values, the
\* i-th being the converted i-th written value; no padding is returned.
C7_RoundTripFits ==
  (ReadAfterWrite /\ Len(last_call.prev_input) <= Len(dram[last_call.buffer])) =>
    /\ Len(last_call.result) = Len(last_call.prev_input)
    /\ last_call.result = Converted(last_call.prev_input)

C7_Witness ==
  /\ ReadAfterWrite
  /\ Len(last_call.prev_input) % elements_per_tile # 0
  /\ Len(last_call.prev_input) > 1
  /\ Len(last_call.prev_input) <= Len(dram[last_call.buffer])
  /\ last_call.prev_input[1] = 257
  /\ last_call.result[1].v = 256

WholeBuffer(b) == [i \in 1..Len(dram[b]) |-> to_float(dram[b][i])]

\* C8 as stated: read_buffer on a handle with recorded count n returns
\* exactly the first n values of the transferred sequence; on a handle
\* without a record it returns the whole tile-padded sequence.
C8_ReadFirstN ==
  last_call.op = "read_buffer" =>
    LET b == last_call.buffer
    IN IF b \in DOMAIN buffer_sizes_
       THEN /\ Len(last_call.result) = buffer_sizes_[b]
            /\ \A i \in 1..Len(last_call.result) : last_call.result[i] = WholeBuffer(b)[i]
       ELSE /\ last_call.result = WholeBuffer(b)
            /\ Len(last_call.result) % elements_per_tile = 0

\* C8 (amended): read_buffer on a handle with recorded count n returns the
\* first min(n, P) values of the transferred sequence of P values (exactly
\* the first n when n <= P); on a handle without a record it returns the
\* whole sequence, whose length is a multiple of the tile.
C8_ReadFirstMin ==
  last_call.op = "read_buffer" =>
    LET b == last_call.buffer
    IN IF b \in DOMAIN buffer_sizes_
       THEN /\ Len(last_call.result) = Min(buffer_sizes_[b], Len(dram[b]))
            /\ \A i \in 1..Len(last_call.result) : last_call.result[i] = WholeBuffer(b)[i]
       ELSE /\ last_call.result = WholeBuffer(b)
            /\ Len(last_call.result) % elements_per_tile = 0

C8_Witness ==
  /\ last_call.op = "read_buffer"
  /\ last_call.buffer \in DOMAIN buffer_sizes_
  /\ buffer_sizes_[last_call.buffer] > 0
  /\ buffer_sizes_[last_call.buffer] < Len(dram[last_call.buffer])
  /\ Len(last_call.result) = buffer_sizes_[last_call.buffer]

\* C9: after every write to a handle (either overload, any length, whatever
\* was recorded before) the side-table entry of the handle is the length of
\* the values just written, and the transfer issued is the converted values
\* followed by zeros up to the next multiple of the tile.
C9_WriteRecordsAndPads ==
  last_call.op \in {"write_buffer", "writeBuffer"} =>
    LET n == Len(last_call.input)
        conv(v) == IF last_call.op = "write_buffer" THEN bfloat16(v) ELSE v
    IN /\ last_call.buffer \in DOMAIN buffer_sizes_
       /\ buffer_sizes_[last_call.buffer] = n
       /\ Len(last_call.transfer) % elements_per_tile = 0
       /\ Len(last_call.transfer) >= n
       /\ Len(last_call.transfer) - n < elements_per_tile
       /\ \A i \in 1..Len(last_call.transfer) :
            last_call.transfer[i] = IF i <= n THEN conv(last_call.input[i]) ELSE 0

C9_Witness ==
  /\ last_call.op = "writeBuffer"
  /\ last_call.prior_count > Len(last_call.input)
  /\ Len(last_call.input) % elements_per_tile # 0
  /\ Len(last_call.input) > 0

\* the entries of the pattern as the caller wrote them
PatternWritten ==
  [p \in 1..buffer_sizes_["pattern"] |-> dram["pattern"][2 * p - 1].v]

\* pattern[j mod L] + delta * (j div L)
IndexOf(j) ==
  PatternWritten[(j % Len(PatternWritten)) + 1] + delta * (j \div Len(PatternWritten))

\* the sparse buffer before a scatter launch
SparseBefore ==
  DeviceStore(FreshBuffer(SparseLen, SIZEOF_BFLOAT16),
              Bf16Cells(PaddedBf16(SparseValues(SparseLen))))

\* C2: after executeGatherKernel has returned true for N elements, for every
\* j in [0, N) dense[j] = sparse[pattern[j mod L] + delta * (j div L)], for
\* every pattern content and every core count.
C2_GatherResult ==
  (op = "gather" /\ host_pc = "returned") =>
    \A j \in 0..(num_elements - 1) :
      dram["dense"][j + 1] = dram["sparse"][IndexOf(j) + 1]

\* C3: after a multi-core scatter launch over N elements with pairwise
\* distinct destination indices has completed, sparse[pattern[j mod L] +
\* delta * (j div L)] = dense[j] for every j in [0, N), whatever the
\* interleaving of the cores' tile reads and write-backs.
C3_ScatterDelivered ==
  (/\ op = "scatter"
   /\ host_pc = "returned"
   /\ \A j, k \in 0..(num_elements - 1) : j # k => IndexOf(j) # IndexOf(k)
   /\ \A j \in 0..(num_elements - 1) : IndexOf(j) < Len(dram["sparse"])) =>
    \A j \in 0..(num_elements - 1) :
      dram["sparse"][IndexOf(j) + 1] = dram["dense"][j + 1]

PatternGatherWritten ==
  [p \in 1..buffer_sizes_["pattern_gather"] |-> dram["pattern_gather"][2 * p - 1].v]

\* pattern[pattern_gather[j mod pattern_length]] + delta * i in unsigned
\* arithmetic, before the reduction mod sparse_size_elements
Unreduced(s, e) ==
  LET j == e % s.count
      i == e \div s.count
  IN U32(PatternWritten[PatternGatherWritten[(j % s.pattern_length) + 1] + 1] + s.delta * i)

\* C5: for every elem_idx of a core's range, with j = elem_idx mod count and
\* i = elem_idx div count, the multi-gather kernel reads the value at
\* sparse[(pattern[pattern_gather[j mod pattern_length]] + delta * i) mod
\* sparse_size_elements] and stores it at dense[j + pattern_length * (i mod wrap)].
C5_MultiGatherResolution ==
  op = "multi_gather" =>
    \A c \in DOMAIN cores :
      cores[c].resolved # NoElement =>
        LET s == cores[c]
            j == s.resolved % s.count
            i == s.resolved \div s.count
            claimed == Unreduced(s, s.resolved) % s.sparse_size_elements
        IN /\ s.sparse_idx = claimed
           /\ s.value = dram["sparse"][claimed + 1]
           /\ s.dense_idx = j + s.pattern_length * (i % s.wrap)
           /\ s.pc \notin {"writeback", "load"} =>
                /\ s.cached_dense_tile = s.dense_idx \div elements_per_tile
                /\ s.dense_l1[(s.dense_idx % elements_per_tile) + 1] = s.value

\* C6: in the multi-gather and multi-scatter kernels every sparse index used
\* is reduced mod sparse_size_elements, so every sparse tile id passed to a
\* bulk read or write is below ceil(sparse_size_elements / elements_per_tile),
\* whatever the pattern content (or the word read for it), delta and elem_idx.
C6_SparseTileInRange ==
  op \in {"multi_gather", "multi_scatter"} =>
    \A c \in DOMAIN cores :
      LET s == cores[c]
      IN /\ s.resolved # NoElement => s.sparse_idx < s.sparse_size_elements
         /\ \A k \in 1..Len(s.xfer) :
              s.xfer[k].buffer = "sparse" =>
                /\ s.xfer[k].tile >= 0
                /\ s.xfer[k].tile < CeilDiv(s.sparse_size_elements, elements_per_tile)

\* a core has just transferred a sparse tile for an element whose pattern
\* entries it read from inside the loaded tiles and whose unreduced index
\* lies in a tile past the sparse size
C6_Witness ==
  /\ op \in {"multi_gather", "multi_scatter"}
  /\ \E c \in DOMAIN cores :
       LET s == cores[c]
           j == s.resolved % s.count
       IN /\ s.resolved # NoElement
          /\ 2 * (j % s.pattern_length) < elements_per_tile - 1
          /\ 2 * PatternGatherWritten[(j % s.pattern_length) + 1] < elements_per_tile - 1
          /\ Unreduced(s, s.resolved) \div elements_per_tile
               >= CeilDiv(s.sparse_size_elements, elements_per_tile)
          /\ s.sparse_idx = Unreduced(s, s.resolved) % s.sparse_size_elements
          /\ \E k \in 1..Len(s.xfer) : s.xfer[k].buffer = "sparse"

\* the cores for which SetRuntimeArgs was called in this call
BoundCores == {bound[k].core : k \in 1..Len(bound)}

\* C11: when N < C (N = 0 included) a core whose share is zero elements is
\* not bound: SetRuntimeArgs is called only with work_per_core > 0, and when
\* the binding loop has ended the cores bound are min(C, N) in number and
\* are the cores with a non-zero share.
C11_ZeroShareNotBound ==
  LET C == NumCores(effective_grid_size_)
      share(k) == (num_elements \div C) + (IF k <= num_elements % C THEN 1 ELSE 0)
  IN /\ \A k \in 1..Len(bound) : bound[k].work_per_core > 0
     /\ \A c \in 1..C : share(c) = 0 => c \notin BoundCores
     /\ BindingDone =>
          /\ Cardinality(BoundCores) = Min(C, num_elements)
          /\ Len(bound) = Min(C, num_elements)
          /\ cores_configured = Min(C, num_elements)

C11_Witness ==
  /\ BindingDone
  /\ num_elements > 0
  /\ num_elements < NumCores(effective_grid_size_)
  /\ Len(bound) = num_elements
  /\ GroupWork(split, 2) = 0

\* C12: in a call that returns true every SetRuntimeArgs call precedes the
\* launch (bindings are made only while the host is in the binding loop, and
\* the loop has bound every core with work when the program is enqueued),
\* EnqueueProgram is issued once, for all bound cores together, and the call
\* returns only after Finish, when the kernels of every core have ended.
C12_BindLaunchFinish ==
  /\ [](host_pc \in {"enqueued", "returned"} =>
          /\ Len(bound) = split.num_cores
          /\ BoundCores \subseteq DOMAIN cores)
  /\ [](host_pc = "returned" => \A c \in DOMAIN cores : CoreDone(cores[c]))
  /\ [][/\ bound' # bound => (host_pc = "groups" /\ host_pc' = "groups")
        /\ (host_pc # "enqueued" /\ host_pc' = "enqueued") =>
             (host_pc = "groups" /\ grp = 3 /\ \A c \in BoundCores : cores'[c] = CoreStart(program_args[op][c]))
        /\ host_pc = "enqueued" => host_pc' \in {"enqueued", "returned"}
        /\ (host_pc # "returned" /\ host_pc' = "returned") => host_pc = "enqueued"
        /\ host_pc = "returned" => host_pc' = "returned"]_vars

C12_Witness ==
  /\ host_pc = "returned"
  /\ Len(bound) >= 2
  /\ \A c \in BoundCores : c \in DOMAIN cores /\ CoreDone(cores[c])

\* the calls that start with `if (!initialized_) throw`
ThrowingCalls ==
  {"allocate_buffer", "write_buffer", "read_buffer", "writeBuffer",
   "execute_gather_kernel", "execute_scatter_kernel"}

WriteCalls == {"write_buffer", "writeBuffer"}

\* C13: while is_initialized() is false (before initialize, after a failed
\* first initialize, after cleanup) allocate_buffer, write_buffer, read_buffer,
\* writeBuffer and the legacy execute_* calls throw the not-initialized error,
\* and executeGatherKernel / executeScatterKernel return false; no such call
\* issues a device call, changes the side-table, bulk memory, the arguments
\* of a program or the cores.
C13_UninitializedRejects ==
  /\ [][(~initialized_ /\ last_call' # last_call /\ last_call'.op \in ThrowingCalls) =>
          /\ last_call'.outcome = "not_initialized"
          /\ last_call'.device = <<>>
          /\ UNCHANGED <<lifeVars, buffer_sizes_, dram, bound, program_args, cores, host_pc>>]_vars
  /\ [][(~initialized_ /\ host_pc = "entry" /\ host_pc' # host_pc) =>
          /\ host_pc' = "returned_false"
          /\ UNCHANGED <<lifeVars, buffer_sizes_, dram, bound, program_args, cores>>]_vars

\* after cleanup, a write of two values to a handle whose recorded count is 0
\* has thrown, and the count is still 0
C13_Witness ==
  /\ ~initialized_
  /\ last_call.op = "write_buffer"
  /\ last_call.outcome = "not_initialized"
  /\ last_call.input = <<1, 2>>
  /\ last_call.prior_count = 0
  /\ buffer_sizes_[last_call.buffer] = 0

\* the entry point called last was given a null handle on an initialized device
NullHandleLaunch ==
  /\ initialized_
  /\ last_call.op \in {"executeGatherKernel", "executeScatterKernel"}
  /\ NoHandle \in {src_buffer, dst_buffer, pattern_buffer}

\* C14: executeGatherKernel and executeScatterKernel, called on an initialized
\* device with a null source, destination or pattern handle, return failure
\* without SetRuntimeArgs, EnqueueProgram, Finish or any other device call
\* (and without ending the process).
C14_NullHandleLaunchFails ==
  NullHandleLaunch =>
    /\ bound = <<>>
    /\ host_pc \notin {"enqueued", "returned", "crashed"}

\* C15: write_buffer / writeBuffer called with a null handle (on an
\* initialized device) fails with the invalid-buffer error, before anything
\* is recorded in the side-table and before a device transfer is issued.
C15_NullWriteRejected ==
  (initialized_ /\ last_call.op \in WriteCalls /\ last_call.buffer = NoHandle) =>
    /\ last_call.outcome = "invalid_buffer"
    /\ last_call.device = <<>>
    /\ NoHandle \notin DOMAIN buffer_sizes_

\* C16: write_buffer / writeBuffer called with an empty sequence is a no-op:
\* the side-table is unchanged (a recorded count stays, an absent entry stays
\* absent), no device transfer is issued and bulk memory is unchanged.
C16_EmptyWriteNoOp ==
  [][(last_call' # last_call /\ last_call'.op \in WriteCalls /\ last_call'.input = <<>>) =>
       /\ buffer_sizes_' = buffer_sizes_
       /\ dram' = dram
       /\ last_call'.device = <<>>]_vars

\* C17: the size allocate_buffer requests is size_bytes rounded up to a whole
\* tile and then to the DRAM alignment; it is >= size_bytes, it is the
\* smallest multiple of the tile that is >= size_bytes, and it is a multiple
\* of the tile and of the alignment, for every size_bytes.
C17_AllocationSize ==
  (last_call.op = "allocate_buffer" /\ last_call.outcome = "ok") =>
    LET size_bytes == last_call.input[1]
        requested == last_call.transfer[1]
    IN /\ requested = RoundUp(RoundUp(size_bytes, TILE_SIZE_BYTES), DRAM_ALIGNMENT)
       /\ requested >= size_bytes
       /\ requested - size_bytes < TILE_SIZE_BYTES
       /\ requested % TILE_SIZE_BYTES = 0
       /\ requested % DRAM_ALIGNMENT = 0

\* C18: execute_scatter_kernel never returns normally: it raises the
\* not-implemented error on an initialized device and the not-initialized
\* error otherwise, issues no device call and changes no buffer, no side-table
\* entry and nothing of the launch state.
C18_LegacyScatterThrows ==
  /\ [](last_call.op = "execute_scatter_kernel" =>
          /\ last_call.outcome = (IF initialized_ THEN "not_implemented" ELSE "not_initialized")
          /\ last_call.device = <<>>)
  /\ [][(last_call' # last_call /\ last_call'.op = "execute_scatter_kernel") =>
          UNCHANGED <<lifeVars, buffer_sizes_, dram, bound, program_args, cores, host_pc>>]_vars

C18_Witness ==
  /\ initialized_
  /\ last_call.op = "execute_scatter_kernel"
  /\ last_call.outcome = "not_implemented"
  /\ last_call.input[1] # NoHandle
  /\ last_call.input[4] = 1
  /\ last_call.input[1] \in DOMAIN buffer_sizes_
  /\ buffer_sizes_[last_call.input[1]] = 2

\* a launch of no elements is in progress
ZeroLaunch == num_elements = 0 /\ host_pc \in {"entry", "groups", "enqueued"}

\* C19: executeGatherKernel / executeScatterKernel with num_elements = 0 on
\* an initialized device with valid handles returns true, binds no core and
\* leaves the contents of every bulk buffer unchanged, whatever launches were
\* executed before it.
C19_ZeroElementsNoOp ==
  /\ [](num_elements = 0 => (bound = <<>> /\ host_pc \notin {"returned_false", "crashed"}))
  /\ [][ZeroLaunch => dram' = dram]_vars

\* the range the k-th binding of a launch holds when it depends on the grid
\* and N only: the shares of the cores before it, then its own
RangeBoundTo(k) ==
  LET C == NumCores(effective_grid_size_)
      base == num_elements \div C
      extra == num_elements % C
  IN [work_offset |-> (k - 1) * base + Min(k - 1, extra),
      work_per_core |-> base + (IF k <= extra THEN 1 ELSE 0)]

\* the pattern entry of element j is a word the caller wrote (or its padding)
\* and lies in the part of the pattern tile that holds words
PatternWordStored(j) ==
  /\ 2 * j + 2 <= elements_per_tile
  /\ dram["pattern"][2 * j + 1].t = "lo"
  /\ dram["pattern"][2 * j + 2].t = "hi"

\* the sparse buffer after the elements 0 .. n-1 of a scatter launch were
\* stored one after the other, each on the result of the one before
RECURSIVE ScatterInOrder(_)
ScatterInOrder(n) ==
  IF n = 0 THEN SparseBefore
  ELSE LET j == n - 1
           dst_index == ScatterDstIndex(dram["pattern"][2 * j + 1].v, delta, j)
       IN [ScatterInOrder(j) EXCEPT ![dst_index + 1] = dram["dense"][j + 1]]

C21_EffectiveGrid ==
  initialized_ =>
    LET W == compute_grid_size_.x
        H == compute_grid_size_.y
        r == num_cores_
        x == effective_grid_size_.x
        y == effective_grid_size_.y
    IN /\ r > 0 => (x = Min(W, r) /\ y = Min(CeilDiv(Min(r, W * H), x), H))
       /\ r <= 0 => effective_grid_size_ = compute_grid_size_
       /\ 1 <= x /\ x <= W
       /\ 1 <= y /\ y <= H

\* a budget below the cores of the device has given a smaller grid
C21_Witness ==
  /\ initialized_
  /\ num_cores_ > 0
  /\ num_cores_ < NumCores(compute_grid_size_)
  /\ effective_grid_size_.x < compute_grid_size_.x
  /\ last_call.op = "initialize"

\* C22: for a core budget r with 0 < r <= W*H the effective grid, over which
\* kernels are created and work is split, holds at most r cores.
C22_BudgetRespected ==
  (initialized_ /\ 0 < num_cores_ /\ num_cores_ <= NumCores(compute_grid_size_)) =>
    NumCores(effective_grid_size_) <= num_cores_

\* C23: when SetRuntimeArgs, EnqueueProgram or Finish raises a device-level
\* exception during executeGatherKernel / executeScatterKernel the call
\* returns false and no exception escapes; the call returns true only from a
\* Finish that completed.
C23_ExceptionReturnsFalse ==
  /\ [](host_pc # "escaped")
  /\ [](last_call.outcome = "exception" => host_pc = "returned_false")
  /\ [][(host_pc' = "returned" /\ host_pc # "returned") =>
          /\ host_pc = "enqueued"
          /\ \A c \in DOMAIN cores : CoreDone(cores[c])
          /\ last_call'.outcome # "exception"]_vars

\* Finish has thrown while a bound core was still running
C23_Witness ==
  /\ host_pc = "returned_false"
  /\ last_call.outcome = "exception"
  /\ last_call.device = <<"Finish">>
  /\ bound # <<>>
  /\ \E c \in DOMAIN cores : ~CoreDone(cores[c])

\* C24: after execute_noc_bandwidth_kernel(src, dst, num_tiles, x, y) on two
\* buffers of num_tiles tiles, with src written before, tile t of dst equals
\* tile t of src for every t < num_tiles, and reading dst returns the values
\* written to src.
C24_NocCopy ==
  (op = "noc" /\ host_pc = "returned") =>
    /\ \A k \in 1..Len(dram[src_buffer]) : dram[dst_buffer][k] = dram[src_buffer][k]
    /\ (last_call.op = "read_buffer" /\ last_call.buffer = dst_buffer) =>
         \A k \in 1..buffer_sizes_[src_buffer] :
           /\ k <= Len(last_call.result)
           /\ last_call.result[k] = to_float(dram[src_buffer][k])

(* ------------- specification: the gather-scatter kernel --------------- *)

\* elements of a gather-scatter launch
MaxGatherScatterElements == 3

\* the gather and scatter patterns explored: within one tile, across tiles
\* and coming back to a tile; across tiles on the source side
GatherScatterPatterns ==
  {[gather |-> <<0, 1>>, scatter |-> <<1, 0>>],
   [gather |-> <<2, 5>>, scatter |-> <<5, 2>>],
   [gather |-> <<6, 6>>, scatter |-> <<0, 7>>]}

\* two cores on a split of the elements, the four buffers as a caller of the
\* kernel would have written them
InitGatherScatter ==
  /\ op = "gather_scatter"
  /\ effective_grid_size_ = [x |-> 2, y |-> 1]
  /\ compute_grid_size_ = effective_grid_size_
  /\ num_cores_ = 0
  /\ num_elements = MaxGatherScatterElements
  /\ delta \in {0, elements_per_tile}
  /\ src_buffer = "sparse_gather"
  /\ dst_buffer = "sparse_scatter"
  /\ pattern_buffer = "pattern_gather"
  /\ host_pc = "enqueued"
  /\ split = NoSplit
  /\ grp = 0
  /\ core_i = 0
  /\ work_offset = 0
  /\ cores_configured = 0
  /\ bound = <<>>
  /\ program_args = NoProgramArgs
  /\ initialized_ = TRUE
  /\ device_ = "IDevice"
  /\ command_queue_ = "CommandQueue"
  /\ buffer_sizes_ = [pattern_gather |-> 2, pattern_scatter |-> 2,
                      sparse_gather |-> SparseLen, sparse_scatter |-> SparseLen]
  /\ last_call = NoCall
  /\ \E pp \in GatherScatterPatterns, cut \in 0..num_elements, delta_scatter \in {0, 1} :
       /\ dram = [pattern_gather |-> DeviceStore(FreshBuffer(Len(pp.gather), SIZEOF_UINT32),
                                                 U32Cells(PaddedU32(pp.gather))),
                  pattern_scatter |-> DeviceStore(FreshBuffer(Len(pp.scatter), SIZEOF_UINT32),
                                                  U32Cells(PaddedU32(pp.scatter))),
                  sparse_gather |-> DeviceStore(FreshBuffer(SparseLen, SIZEOF_BFLOAT16),
                                                Bf16Cells(PaddedBf16(SparseValues(SparseLen)))),
                  sparse_scatter |-> DeviceStore(FreshBuffer(SparseLen, SIZEOF_BFLOAT16),
                                                 Bf16Cells(PaddedBf16(DenseValues(SparseLen))))]
       /\ cores = [c \in 1..2 |->
            GatherScatterCore([start_element |-> IF c = 1 THEN 0 ELSE cut,
                               num_elements_per_core |->
                                 IF c = 1 THEN cut ELSE num_elements - cut,
                               delta_gather |-> delta, delta_scatter |-> delta_scatter,
                               pattern_length |-> Len(pp.gather)])]

NextGatherScatter ==
  \/ \E c \in DOMAIN cores : GatherScatterPattern(c)
  \/ \E c \in DOMAIN cores : GatherScatterElem(c)
  \/ \E c \in DOMAIN cores : GatherScatterWriteBack(c)
  \/ \E c \in DOMAIN cores : GatherScatterLoad(c)
  \/ \E c \in DOMAIN cores : GatherScatterFlush(c)
  \/ Finish

SpecGatherScatter == InitGatherScatter /\ [][NextGatherScatter]_vars

(* ------------- specification: the programs as compiled ---------------- *)

\* elements of a launch on the compiled programs
MaxProgramElements == 2

\* a launch of either entry point, no elements included
InitPrograms ==
  /\ InitHost({"gather", "scatter"}, RelaunchGrids, 0..MaxProgramElements, {0})
  /\ InitLaunchBuffers(<<0, 1>>, SparseLen, SparseLen)
  /\ cores = <<>>

\* the entry point on the programs compile_kernels built; any device call
\* may throw, SetRuntimeArgs on the kernel handle that was never created
\* included
NextPrograms ==
  \/ SplitWork \/ SkipGroup \/ BindCore \/ NextGroup \/ EnqueueCompiledProgram
  \/ \E c \in DOMAIN cores : ReaderPattern(c)
  \/ \E c \in DOMAIN cores : ReaderSparse(c)
  \/ \E c \in DOMAIN cores : GatherCompute(c)
  \/ \E c \in DOMAIN cores : GatherWriter(c)
  \/ Finish
  \/ DeviceException

SpecPrograms == InitPrograms /\ [][NextPrograms]_vars

(* --------------- specification: kernels on empty ranges ---------------- *)

\* the offsets an empty range is placed at: on and between tile boundaries
MaxEmptyOffset == 5

\* the host after EnqueueProgram of kernel o on two cores
EnqueuedLaunch(o, src, dst, pattern) ==
  /\ op = o
  /\ effective_grid_size_ = [x |-> 2, y |-> 1]
  /\ compute_grid_size_ = effective_grid_size_
  /\ num_cores_ = 0
  /\ num_elements = 3
  /\ delta \in {0, 1}
  /\ src_buffer = src
  /\ dst_buffer = dst
  /\ pattern_buffer = pattern
  /\ host_pc = "enqueued"
  /\ split = NoSplit
  /\ grp = 0
  /\ core_i = 0
  /\ work_offset = 0
  /\ cores_configured = 0
  /\ bound = <<>>
  /\ program_args = NoProgramArgs

\* every kernel variant on two cores: the first on an empty range at any
\* offset, with pattern_length, count, wrap and sparse_size_elements all 0 or
\* all 2; the second on the three elements of the launch
InitEmpty ==
  \E o \in 0..MaxEmptyOffset, z \in {0, 2} :
    \/ /\ EnqueuedLaunch("scatter", "dense", "sparse", "pattern")
       /\ InitLaunchBuffers(<<1, 0, 2>>, SparseLen, num_elements)
       /\ cores = <<ScatterCore([work_offset |-> o, work_per_core |-> 0, delta |-> delta]),
                    ScatterCore([work_offset |-> 0, work_per_core |-> num_elements,
                                 delta |-> delta])>>
    \/ /\ \E kind \in {"multi_gather", "multi_scatter"} :
            EnqueuedLaunch(kind, SourceOf(kind), DestOf(kind), "pattern")
       /\ InitMultiBuffers([pattern |-> <<1, 0>>, indirection |-> <<1, 0>>])
       /\ cores = <<MultiCore([start_element |-> o, end_element |-> o,
                               pattern_length |-> z, delta |-> delta, count |-> z,
                               wrap |-> z, sparse_size_elements |-> z]),
                    MultiCore([start_element |-> 0, end_element |-> num_elements,
                               pattern_length |-> 2, delta |-> delta, count |-> 1,
                               wrap |-> 3, sparse_size_elements |-> SparseLen])>>
    \/ /\ EnqueuedLaunch("gather_scatter", "sparse_gather", "sparse_scatter", "pattern_gather")
       /\ initialized_ = TRUE
       /\ device_ = "IDevice"
       /\ command_queue_ = "CommandQueue"
       /\ buffer_sizes_ = [pattern_gather |-> 2, pattern_scatter |-> 2,
                           sparse_gather |-> SparseLen, sparse_scatter |-> SparseLen]
       /\ last_call = NoCall
       /\ dram = [pattern_gather |-> DeviceStore(FreshBuffer(2, SIZEOF_UINT32),
                                                 U32Cells(PaddedU32(<<2, 5>>))),
                  pattern_scatter |-> DeviceStore(FreshBuffer(2, SIZEOF_UINT32),
                                                  U32Cells(PaddedU32(<<5, 2>>))),
                  sparse_gather |-> DeviceStore(FreshBuffer(SparseLen, SIZEOF_BFLOAT16),
                                                Bf16Cells(PaddedBf16(SparseValues(SparseLen)))),
                  sparse_scatter |-> DeviceStore(FreshBuffer(SparseLen, SIZEOF_BFLOAT16),
                                                 Bf16Cells(PaddedBf16(DenseValues(SparseLen))))]
       /\ cores = <<GatherScatterCore([start_element |-> o, num_elements_per_core |-> 0,
                                       delta_gather |-> delta, delta_scatter |-> delta,
                                       pattern_length |-> z]),
                    GatherScatterCore([start_element |-> 0,
                                       num_elements_per_core |-> num_elements,
                                       delta_gather |-> delta, delta_scatter |-> delta,
                                       pattern_length |-> 2])>>

NextEmpty ==
  \/ \E c \in DOMAIN cores : ScatterTile(c)
  \/ \E c \in DOMAIN cores : ScatterReadDst(c)
  \/ \E c \in DOMAIN cores : ScatterWriteDst(c)
  \/ NextMulti
  \/ NextGatherScatter

SpecEmpty == InitEmpty /\ [][NextEmpty]_vars

(* ------------------ specification: every kernel ------------------------ *)

\* a launch of any of the kernels; the bandwidth test runs on the buffers it
\* allocated
InitKernels ==
  \/ /\ InitHost({"scatter"}, {[x |-> 2, y |-> 1]}, {MaxScatterElements}, {0, 1})
     /\ \E pattern \in ScatterPatterns : InitLaunchBuffers(pattern, SparseLen, num_elements)
     /\ cores = <<>>
  \/ InitGather
  \/ InitMulti
  \/ InitGatherScatter
  \/ InitNoc

NextKernels ==
  \/ NextScatter
  \/ NextGather
  \/ NextMulti
  \/ NextGatherScatter
  \/ ("h1" \in DOMAIN dram /\ NextNoc)

SpecKernels == InitKernels /\ [][NextKernels]_vars

(* ------------------------- tile caching in the kernels ------------------ *)

\* the cores of a launch of a kernel that keeps a destination tile in a
\* scratch slot
SlotCores ==
  IF op \in {"scatter", "gather_scatter", "multi_gather", "multi_scatter"}
  THEN DOMAIN cores ELSE {}

\* C25: a core that has finished issued at most as many tile writes to bulk
\* memory as there are distinct destination tile ids among the elements it
\* processed, whatever the order of the destination indices.
C25_WriteCoalescing ==
  \A c \in SlotCores :
    cores[c].pc = "done" => cores[c].writes <= Cardinality(cores[c].touched)

\* the events of the last step of core c
EventsOf(c) == {cores[c].events[k] : k \in DOMAIN cores[c].events}

RECURSIVE BarrierOrder(_, _)
BarrierOrder(events, pending) ==
  IF events = <<>> THEN pending = {}
  ELSE LET ev == Head(events)
       IN CASE ev.e \in {"read", "write"} ->
                 /\ \A p \in pending : p[1] # ev.slot
                 /\ BarrierOrder(Tail(events), pending \cup {<<ev.slot, ev.e>>})
            [] ev.e = "read_barrier" ->
                 BarrierOrder(Tail(events), {p \in pending : p[2] # "read"})
            [] ev.e = "write_barrier" ->
                 BarrierOrder(Tail(events), {p \in pending : p[2] # "write"})
            [] OTHER ->
                 /\ \A p \in pending : p[1] # ev.slot
                 /\ BarrierOrder(Tail(events), pending)

\* C27: in every kernel, while a transfer into or out of a scratch slot is
\* issued and its barrier has not returned, the core does not read or store
\* an element of the slot, hand the slot over, or issue another transfer on it.
C27_BarrierBeforeUse ==
  \A c \in DOMAIN cores : BarrierOrder(cores[c].events, {})

\* a core has read an element from a slot in the step that loaded the slot
C27_Witness ==
  \E c \in DOMAIN cores : \E i, j \in DOMAIN cores[c].events :
    /\ i < j
    /\ cores[c].events[i].e = "read"
    /\ cores[c].events[j].e \in {"load", "store"}
    /\ cores[c].events[j].slot = cores[c].events[i].slot

\* the kernels that cache tiles under markers
MarkerCores ==
  IF op \in {"gather_scatter", "multi_gather", "multi_scatter"} THEN DOMAIN cores ELSE {}

\* C28: at every element read or store the marker of the slot is the tile id
\* of the element's index, and a tile is read into a slot only when it is not
\* the tile the marker names.
C28_MarkerIsResidentTile ==
  \A c \in MarkerCores : \A ev \in EventsOf(c) :
    /\ ev.e \in {"load", "store"} => ev.marker = ev.tile
    /\ ev.e = "read" => ev.marker # ev.tile

\* a core has read a source element through the cached tile, without a load
C28_Witness ==
  \E c \in MarkerCores :
    /\ \E ev \in EventsOf(c) : ev.e = "load" /\ ev.slot = src_buffer
    /\ \A ev \in EventsOf(c) : ~(ev.e = "read" /\ ev.slot = src_buffer)
    /\ cores[c].elem_idx > cores[c].start_element + 1

\* C29: a core that is done holds no destination tile with a stored element
\* that was not written back, and has issued a tile write if it stored an
\* element.
C29_NoDirtyTileAtDone ==
  \A c \in MarkerCores :
    cores[c].pc = "done" =>
      /\ ~cores[c].dirty
      /\ cores[c].touched # {} => cores[c].writes >= 1

\* a core is done after storing elements
C29_Witness ==
  \E c \in MarkerCores : cores[c].pc = "done" /\ cores[c].touched # {}

(* --------------------- multi-scatter against multi-gather ---------------- *)

\* the sparse indices multi_gather_kernel.cpp resolves for element e on the
\* arguments of core s and the pattern buffers in bulk memory (one index,
\* unless a word is read from outside what the tile holds)
GatherSparseIndices(s, e) ==
  LET j == e % s.count
      i == e \div s.count
      pattern_idx == j % s.pattern_length
      pattern_gather_data == noc_async_read_tile("pattern_gather", pattern_idx \div elements_per_tile)
  IN UNION {{SparseIndex(sparse_base_idx, s.delta, i, s.sparse_size_elements) :
               sparse_base_idx \in
                 WordValues(noc_async_read_tile("pattern", first_indirection_idx \div elements_per_tile),
                            first_indirection_idx % elements_per_tile)} :
            first_indirection_idx \in
              WordValues(pattern_gather_data, pattern_idx % elements_per_tile)}

\* C30: on the same pattern, indirection, delta, count, wrap and sparse size
\* the multi-scatter kernel resolves for every element the sparse index and
\* the dense index the multi-gather kernel resolves, the indirection entry
\* indexing the pattern as it was read.
C30_ScatterResolvesAsGather ==
  op = "multi_scatter" =>
    \A c \in DOMAIN cores :
      LET s == cores[c]
      IN s.resolved # NoElement =>
           /\ s.sparse_idx \in GatherSparseIndices(s, s.resolved)
           /\ s.dense_idx = DenseIndex(s.resolved % s.count, s.pattern_length,
                                       s.resolved \div s.count, s.wrap)

(* ------------------------- programs and kernels ------------------------- *)

\* C31: an entry point that returned true launched a program that holds a
\* kernel, and that kernel has run to its end on every core bound in the
\* call.
C31_SuccessMeansKernelRan ==
  (host_pc = "returned" /\ op \in {"gather", "scatter"}) =>
    /\ compile_kernels[op] # {}
    /\ \A k \in 1..Len(bound) :
         /\ bound[k].core \in DOMAIN cores
         /\ CoreDone(cores[bound[k].core])

(* ----------------------- the logical-count side-table ------------------ *)

\* C32: only write_buffer and writeBuffer insert or modify an entry of the
\* side-table, and only the entry of the handle they are called on:
\* read_buffer on a recorded or an unrecorded handle, allocate_buffer,
\* the execute_* calls and every step of an executeGatherKernel or
\* executeScatterKernel launch leave the table as it was.
C32_OnlyWritesRecord ==
  [][(buffer_sizes_' # buffer_sizes_) =>
       /\ last_call'.op \in WriteCalls
       /\ last_call'.outcome # "not_initialized"
       /\ host_pc' = host_pc
       /\ DOMAIN buffer_sizes_' = (DOMAIN buffer_sizes_) \cup {last_call'.buffer}
       /\ \A h \in DOMAIN buffer_sizes_ :
            h # last_call'.buffer => buffer_sizes_'[h] = buffer_sizes_[h]]_vars

\* a read of an allocated handle no write recorded has returned the whole
\* buffer, and the table, which holds another entry, has none for the handle
C32_Witness ==
  /\ last_call.op = "read_buffer"
  /\ last_call.outcome = "ok"
  /\ last_call.result # <<>>
  /\ last_call.buffer \notin DOMAIN buffer_sizes_
  /\ buffer_sizes_ # <<>>

\* C33: after cleanup() the side-table is empty: no logical-count record of
\* a buffer of the torn-down device context is retained, whatever sequence of
\* initialize, allocate_buffer and write calls came before.
C33_CleanupEmptiesSideTable ==
  last_call.op = "cleanup" => buffer_sizes_ = <<>>

(* ------------------------- initialize and cleanup ---------------------- *)

\* C34: after any sequence of initialize() and cleanup() calls (a failing
\* initialize and an initialize on an initialized device included),
\* is_initialized() implies that device_ and command_queue_ are not null, and
\* after a call of initialize() that returned false is_initialized() is false.
C34_InitializedHasDevice ==
  /\ initialized_ => (device_ # "nullptr" /\ command_queue_ # "nullptr")
  /\ (last_call.op = "initialize" /\ last_call.outcome = "false") => ~initialized_

(* ----------------------- cores without a binding ----------------------- *)

\* C35: across any sequence of launches on the same device, a core that
\* receives no binding in the current launch issues no bulk-memory read or
\* write during it: it does not run on the runtime arguments an earlier
\* launch bound for it.
C35_UnboundCoreIdle ==
  [][\A c \in DOMAIN cores' :
       (c \in DOMAIN cores /\ cores'[c] # cores[c] /\ cores'[c].xfer # <<>>)
         => c \in BoundCores]_vars

(* --------------------------- the gather pipeline ----------------------- *)

\* C36: in the three-kernel gather pipeline, for every bound range the reader
\* pushes as many tiles to each input circular buffer as the compute kernel
\* pops from it, and the compute kernel pushes as many output tiles as the
\* writer pops and writes: when the three kernels of a core have finished,
\* its three circular buffers are empty.
C36_CircularBuffersBalanced ==
  op = "gather" =>
    \A c \in DOMAIN cores :
      GatherDone(cores[c]) =>
        /\ cores[c].cb_pattern = <<>>
        /\ cores[c].cb_sparse = <<>>
        /\ cores[c].cb_out = <<>>

\* C37: with circular buffers of two tiles, for every bound range of at
\* least one element the reader, the compute kernel and the writer of every
\* core eventually return under fair scheduling (none waits forever in
\* cb_reserve_back or cb_wait_front), and Finish on the host returns.
C37_PipelineTerminates ==
  (host_pc = "enqueued") ~>
    (host_pc = "returned" /\ \A c \in DOMAIN cores : GatherDone(cores[c]))

\* the launch has returned, and the reader of a core bound at an offset
\* inside a tile has pushed more tiles than a circular buffer holds
C37_Witness ==
  /\ host_pc = "returned"
  /\ \E c \in DOMAIN cores :
       /\ cores[c].work_offset % elements_per_tile # 0
       /\ cores[c].tile_idx - (cores[c].work_offset \div elements_per_tile) > num_tiles_per_cb
       /\ GatherDone(cores[c])

\* the destination tiles the writer of core c has written so far: from its
\* start_tile_id up to the tile before its tile_id
WriterTiles(c) ==
  (cores[c].work_offset \div elements_per_tile)..(cores[c].tile_id - 1)

\* C38: after a gather launch over N elements the destination tiles the
\* writers have written are exactly the tiles that hold an index of [0, N):
\* every tile t with t * elements_per_tile < N is written by a core and no
\* other tile is.
C38_WritersCoverDestination ==
  (op = "gather" /\ host_pc = "returned") =>
    UNION {WriterTiles(c) : c \in DOMAIN cores}
      = {t \in 0..num_elements : t * elements_per_tile < num_elements}

(* -------------------------- pattern entries ---------------------------- *)

\* C39: every pattern entry a kernel reads from scratch memory is the entry
\* of the bulk pattern buffer at that index: for every pattern_length and
\* every index p < pattern_length the word read for p lies inside the tile
\* loaded into the pattern slot and is the entry writeBuffer stored for p.
C39_PatternEntryRead ==
  op \in {"multi_gather", "multi_scatter"} =>
    \A c \in DOMAIN cores :
      cores[c].resolved # NoElement =>
        LET s == cores[c]
            p == (s.resolved % s.count) % s.pattern_length
        IN /\ s.cached_pattern_gather_tile = p \div elements_per_tile
           /\ WordValues(s.pattern_gather_l1, p % elements_per_tile)
                = {PatternGatherWritten[p + 1]}

(* ----------------------------- empty ranges ---------------------------- *)

\* the range of the kernel on core c holds no element
EmptyRange(c) ==
  IF op = "scatter" THEN cores[c].work_per_core = 0
  ELSE cores[c].start_element = cores[c].end_element

\* C40: on an empty range (work_per_core = 0, start_element = end_element,
\* at any work_offset) the scatter, gather-scatter, multi-gather and
\* multi-scatter kernels issue no bulk-memory write and never reach the
\* element step, the only place that divides or reduces by pattern_length,
\* count, wrap or sparse_size_elements, whether or not those arguments are 0.
C40_EmptyRangeNoOp ==
  op \in {"scatter", "gather_scatter", "multi_gather", "multi_scatter"} =>
    \A c \in DOMAIN cores :
      EmptyRange(c) =>
        LET s == cores[c]
        IN /\ s.writes = 0
           /\ s.touched = {}
           /\ \A k \in 1..Len(s.xfer) : s.xfer[k].kind # "write"
           /\ \A k \in 1..Len(s.events) : s.events[k].e \notin {"write", "store"}
           /\ IF op = "scatter" THEN s.pc \in {"tile", "done"}
              ELSE /\ s.elem_idx = s.start_element
                   /\ s.pc \notin {"writeback", "load"}
           /\ op \in {"multi_gather", "multi_scatter"} => s.resolved = NoElement

\* a gather-scatter launch has returned whose first core ran on an empty
\* range inside a tile with pattern_length = 0
C40_Witness ==
  /\ host_pc = "returned"
  /\ op = "gather_scatter"
  /\ \E c \in DOMAIN cores :
       /\ EmptyRange(c)
       /\ cores[c].pattern_length = 0
       /\ cores[c].start_element % elements_per_tile # 0
       /\ cores[c].pc = "done"

====
